---- MODULE Spec2Model ----
(***************************************************************************)
(* A model of the ansible-automation-workbench migration service:          *)
(*   - the job runtime (models.Job, the log streamer, the cancel handler), *)
(*   - the preview store and the preview / run handlers,                   *)
(*   - the importer (importAll) writing to a destination control plane.    *)
(* Each part has its own specification over the shared variables.          *)
(***************************************************************************)
EXTENDS Integers, Sequences, FiniteSets, TLC

\* ------------------------------------------------------------------ bounds

\* The most log lines a job's worker appends in the job-runtime specifications.
MaxLines == 3
\* The number of log-stream subscribers of the job.
NumStreams == 1
\* The number of cancel requests sent to the job.
MaxCancels == 1
\* The latest reading of the wall clock (time.Now()).
MaxClock == 3
\* The number of preview jobs started.
NumPreviews == 2
\* The number of run requests received.
NumRunRequests == 2
\* The number of preview + run rounds of the importer specification.
MaxRuns == 2
\* The most requests (create POSTs, lookups of a preflight, the read of the
\* credential types) the destination answers with an error.
MaxPostFailures == 1
\* The polls of one project's sync before the deadline has passed.
MaxPolls == 2

\* The most reads of one preview job that end with an error.
MaxReadFailures == 1

\* The most pages a paginated endpoint serves, and the most results on a page.
MaxPages == 3
MaxPageLen == 1

\* The most dot-separated parts of a version string.
MaxParts == 3
\* The entries of a resource registry.
NumEntries == 2
\* The longest API path and the longest prefix, in characters.
MaxPathLen == 3
MaxPrefixLen == 2
\* The most jobs of a job store.
MaxJobs == 3
\* The most Delete calls, and the most of them that fail.
MaxDeletes == 3
MaxDeleteFailures == 1
\* The concurrent Create calls on the connection store.
NumCreators == 2

Streams == 1..NumStreams
PreviewIDs == 1..NumPreviews
RunRequests == 1..NumRunRequests

\* ------------------------------------------------------------------- state

VARIABLES
    status,       \* Job.Status
    jobError,     \* Job.Error
    finishedAt,   \* Job.FinishedAt: 0 is nil, else the clock reading
    output,       \* Job.Output
    cancelled,    \* the job's cancellation flag
    now,          \* the wall clock
    appendCalls,  \* history: the lines handed to AppendLog, in lock order
    apiRead,      \* the last LogsSince call of a direct caller: offset and result
    wpc,          \* the worker goroutine's position
    werr,         \* the error the worker's operation returned ("" is nil)
    cpc,          \* the CancelJob handler's position
    cancelsLeft,  \* cancel requests still to come
    cancelResp,   \* the HTTP status of the last CancelJob response (0: none yet)
    spc,          \* per stream: the streamer's position
    offset,       \* per stream: StreamJobLogs' offset
    lines,        \* per stream: the result of the tick's LogsSince
    sent,         \* per stream: the text frames written to the connection
    closeReason,  \* per stream: the reason of the close frame ("" when none)
    pjob,         \* per preview job: "none" before its request, its position, its status
    previews,     \* PreviewStore.previews: the job IDs that have an entry
    storeCalls,   \* history: per preview job ID, the number of Store calls
    rreq,         \* per run request: its state, preview job ID and job status
    pget,         \* the GetMigrationPreview request: its position, job ID and answer
    scn,          \* the run's inputs: destination type and exclusion set
    run,          \* the number of the current preview + run round
    preview,      \* MigrationPreview.Resources of the current round
    ids,          \* importAll's idMap
    ipc,          \* importAll's position: phase and loop indices
    todo,         \* the keys of the map a range loop has still to visit
    waitList,     \* projectWaitList
    srcHostNames, \* importAll's srcHostNames
    dest,         \* the destination control plane: its rows
    nextID,       \* the ID the destination gives the next row
    posts,        \* history: the POST requests sent to the destination, in order
    failsLeft,    \* requests the destination may still answer with an error
    badLookups,   \* history: the lookups of the current preview that failed
    preloadOK,    \* history: the run's read of the credential types succeeded
    source,       \* the source control plane: what its collections hold
    data,         \* exportAll's ExportedData
    xpc,          \* the preview job's position: the step of Preview it is at
    xlist,        \* preflightCheck's position: the entries of the preview so far
    requests,     \* history: the HTTP requests of the preview job, in order
    readsLeft,    \* reads of the preview job that may still end with an error
    xerr,         \* the error Preview returned ("" is nil)
    pages,        \* the pages a paginated endpoint serves, in order
    currentURL,   \* GetAll's currentURL (<< >> is the empty string)
    all,          \* GetAll's all
    gres,         \* GetAll's return: "" before it, "ok" or "error"
    fetched,      \* history: the pages GetAll has read, in order
    va,           \* CompareVersions' a (VersionAtLeast's version)
    vb,           \* CompareVersions' b (VersionAtLeast's min)
    vres,         \* the results of the two functions, none before the call
    registry,     \* a resource registry (awxResources, aapResources): its entries
    heap,         \* the Skip maps in memory: per address, the keys of the map
    rewritten,    \* rewritePaths' result, << >> before the call
    rargs,        \* rewritePaths' oldPrefix and newPrefix, << >> before the call
    jobs,         \* JobStore.jobs: per job ID, the job's StartedAt
    result,       \* List's result: job IDs in the slice's order
    lpc,          \* List's position: the indices i and j of its loops
    objects,      \* the objects the control plane holds, by path
    deletes,      \* history: the Delete calls, their status code and their error
    deleteFails,  \* DELETE requests the control plane may still refuse
    conns,        \* ConnectionStore.conns: per ID, the connection's fields
    mu,           \* ConnectionStore.mu: its writer (0: none) and its readers
    gpc,          \* per goroutine of the connection store's callers: its position
    gets          \* per Get goroutine: what Get returned

jobVars == <<status, jobError, finishedAt, output, cancelled, now, appendCalls, apiRead>>
workerVars == <<wpc, werr>>
cancelVars == <<cpc, cancelsLeft, cancelResp>>
streamVars == <<spc, offset, lines, sent, closeReason>>

storeVars == <<pjob, previews, storeCalls, rreq, pget>>
importVars == <<scn, run, preview, ids, ipc, todo, waitList, srcHostNames,
                dest, nextID, posts, failsLeft, badLookups, preloadOK>>

exportVars == <<source, data, xpc, xlist, requests, readsLeft, xerr>>
clientVars == <<pages, currentURL, all, gres, fetched>>
versionVars == <<va, vb, vres>>
registryVars == <<registry, heap, rewritten, rargs>>
listVars == <<jobs, result, lpc>>
deleteVars == <<objects, deletes, deleteFails>>
connVars == <<conns, mu, gpc, gets>>
libVars == <<registryVars, listVars, deleteVars, connVars>>
toolVars == <<exportVars, clientVars, versionVars, libVars>>

vars == <<jobVars, workerVars, cancelVars, streamVars, storeVars, importVars, toolVars>>

\* A log line: its conventional prefix, the name it is about, a number.
Line(kind, name, n) == [kind |-> kind, name |-> name, n |-> n]

\* No preview job is exporting, no GetAll is under way, no version is compared.
ExportUnused ==
    /\ source = << >>
    /\ data = << >>
    /\ xpc = "none"
    /\ xlist = << >>
    /\ requests = << >>
    /\ readsLeft = 0
    /\ xerr = ""

ClientUnused ==
    /\ pages = << >>
    /\ currentURL = << >>
    /\ all = << >>
    /\ gres = ""
    /\ fetched = << >>

VersionsUnused ==
    /\ va = << >>
    /\ vb = << >>
    /\ vres = << >>

\* No registry is rewritten, no job is listed, nothing is deleted, the
\* connection store has no caller.
RegistryUnused ==
    /\ registry = << >>
    /\ heap = << >>
    /\ rewritten = << >>
    /\ rargs = << >>

ListUnused ==
    /\ jobs = << >>
    /\ result = << >>
    /\ lpc = << >>

DeleteUnused ==
    /\ objects = {}
    /\ deletes = << >>
    /\ deleteFails = 0

ConnsUnused ==
    /\ conns = << >>
    /\ mu = << >>
    /\ gpc = << >>
    /\ gets = << >>

LibUnused == RegistryUnused /\ ListUnused /\ DeleteUnused /\ ConnsUnused

Terminal(s) == s \in {"completed", "failed", "cancelled"}

\* --------------------------------------------------------------- models.Job

\* JobStore.Create: a new job is running, with an empty log.
JobCreated ==
    /\ status = "running"
    /\ jobError = ""
    /\ finishedAt = 0
    /\ output = <<>>
    /\ cancelled = FALSE
    /\ now = 1
    /\ appendCalls = <<>>
    /\ apiRead = [off |-> 0, lines |-> <<>>]

\* Job.AppendLog, under j.mu.
AppendLog(line) == output' = Append(output, line)

\* Job.LogsSince, under j.mu: a copy of the lines from offset on.
LogsSinceNext(off) ==
    IF off >= Len(output) THEN <<>> ELSE SubSeq(output, off + 2, Len(output))

LogsSince(off) ==
    IF off >= Len(output) THEN <<>> ELSE SubSeq(output, off + 1, Len(output))

\* Job.Complete, under j.mu.
Complete ==
    /\ status' = "completed"
    /\ finishedAt' = now
    /\ UNCHANGED jobError

\* Job.Fail, under j.mu.
Fail(err) ==
    /\ status' = "failed"
    /\ jobError' = err
    /\ finishedAt' = now

\* Job.Cancel: sets the cancellation flag.
Cancel == cancelled' = TRUE

\* A call of AppendLog, recorded in the history of calls.
LogCall(line) ==
    /\ AppendLog(line)
    /\ appendCalls' = Append(appendCalls, line)

\* ------------------------------------------------- callers of the Job's API

LogLines == {Line("INFO", "a", 0), Line("INFO", "b", 0)}
Errs == {"e1", "e2"}

ClockTick ==
    /\ now < MaxClock
    /\ now' = now + 1
    /\ UNCHANGED <<status, jobError, finishedAt, output, cancelled, appendCalls, apiRead>>
    /\ UNCHANGED <<workerVars, cancelVars, streamVars, toolVars, storeVars, importVars>>

ApiAppendLog ==
    /\ Len(output) < MaxLines
    /\ \E l \in LogLines : LogCall(l)
    /\ UNCHANGED <<status, jobError, finishedAt, cancelled, now, apiRead>>
    /\ UNCHANGED <<workerVars, cancelVars, streamVars, toolVars, storeVars, importVars>>

ApiLogsSince ==
    /\ \E k \in 0..MaxLines : apiRead' = [off |-> k, lines |-> LogsSince(k)]
    /\ UNCHANGED <<status, jobError, finishedAt, output, cancelled, now, appendCalls>>
    /\ UNCHANGED <<workerVars, cancelVars, streamVars, toolVars, storeVars, importVars>>

ApiComplete ==
    /\ Complete
    /\ UNCHANGED <<output, cancelled, now, appendCalls, apiRead>>
    /\ UNCHANGED <<workerVars, cancelVars, streamVars, toolVars, storeVars, importVars>>

ApiFail ==
    /\ \E e \in Errs : Fail(e)
    /\ UNCHANGED <<output, cancelled, now, appendCalls, apiRead>>
    /\ UNCHANGED <<workerVars, cancelVars, streamVars, toolVars, storeVars, importVars>>

ApiCancel ==
    /\ Cancel
    /\ UNCHANGED <<status, jobError, finishedAt, output, now, appendCalls, apiRead>>
    /\ UNCHANGED <<workerVars, cancelVars, streamVars, toolVars, storeVars, importVars>>

\* ---------------------------------------------------------- initial states

HandlersIdle ==
    /\ wpc = "work"
    /\ werr = ""
    /\ cpc = "idle"
    /\ cancelsLeft = MaxCancels
    /\ cancelResp = 0
    /\ spc = [s \in Streams |-> "wait"]
    /\ offset = [s \in Streams |-> 0]
    /\ lines = [s \in Streams |-> <<>>]
    /\ sent = [s \in Streams |-> <<>>]
    /\ closeReason = [s \in Streams |-> ""]

\* NewPreviewStore: an empty store; no preview or run request yet.
StoreEmpty ==
    /\ pjob = [p \in PreviewIDs |-> "none"]
    /\ previews = {}
    /\ storeCalls = [p \in PreviewIDs |-> 0]
    /\ rreq = [r \in RunRequests |-> [state |-> "new", preview |-> 0, status |-> ""]]
    /\ pget = [at |-> "idle", job |-> 0, code |-> 0, body |-> ""]

\* ------------------------------------------------------ the exported data

\* One source, as exportAll leaves it in ExportedData: the lists in export
\* order, the maps keyed by source IDs, every reference by natural key.
BaseData == [
    Organizations   |-> << [id |-> 1, name |-> "Acme"], [id |-> 2, name |-> "Beta"] >>,
    CredentialTypes |-> << [id |-> 3, name |-> "ctype"] >>,
    Users           |-> << [id |-> 4, name |-> "bob"] >>,
    Teams           |-> << [id |-> 5, name |-> "Ops", org |-> "Acme"] >>,
    Credentials     |-> << [id |-> 6, name |-> "cred", org |-> "Acme",
                            credential_type |-> 3, ctName |-> "ctype",
                            inputs |-> [username |-> "admin"]] >>,
    Projects        |-> << [id |-> 7, name |-> "PBooks", org |-> "Acme",
                            scmCred |-> "cred"] >>,
    Inventories     |-> << [id |-> 8, name |-> "Dev", org |-> "Acme"] >>,
    Hosts           |-> [i \in {8} |-> << [id |-> 9, name |-> "h1"],
                                          [id |-> 10, name |-> "h2"] >>],
    Groups          |-> [i \in {8} |-> << [id |-> 11, name |-> "g1"] >>],
    GroupHosts      |-> [g \in {11} |-> << 9 >>],
    JobTemplates    |-> << [id |-> 12, name |-> "Deploy", project |-> "PBooks",
                            inventory |-> "Dev", creds |-> << "cred" >>] >>,
    WorkflowJTs     |-> << [id |-> 13, name |-> "WF", org |-> "Acme"],
                           [id |-> 18, name |-> "WF2", org |-> "Acme"] >>,
    WorkflowNodes   |-> [w \in {13, 18} |->
                          IF w = 13
                          THEN << [id |-> 14, ujt |-> "Deploy", success_nodes |-> << 15 >>,
                                   failure_nodes |-> << >>, always_nodes |-> << >>],
                                  [id |-> 15, ujt |-> "Deploy", success_nodes |-> << >>,
                                   failure_nodes |-> << >>, always_nodes |-> << >>] >>
                          ELSE << [id |-> 19, ujt |-> "WF", success_nodes |-> << >>,
                                   failure_nodes |-> << 20 >>, always_nodes |-> << 20 >>],
                                  [id |-> 20, ujt |-> "Deploy", success_nodes |-> << >>,
                                   failure_nodes |-> << >>, always_nodes |-> << >>] >>],
    Surveys         |-> {12, 13},
    Schedules       |-> << [id |-> 16, name |-> "nightly", parent |-> "Deploy"],
                           [id |-> 17, name |-> "weekly", parent |-> "WF"] >>,
    OrgUsers        |-> [o \in {1} |-> << "bob" >>],
    TeamUsers       |-> [t \in {5} |-> << "bob" >>] ]

\* The same export with items that share a natural key with another item of
\* their type: a second team Ops and a second inventory Dev, both of the
\* organization Beta, the inventory with a host h1 and a group g1 of its own;
\* and a second project.
TwinData == [BaseData EXCEPT
    !.Teams       = Append(@, [id |-> 21, name |-> "Ops", org |-> "Beta"]),
    !.Projects    = Append(@, [id |-> 25, name |-> "Site", org |-> "Beta", scmCred |-> ""]),
    !.Inventories = Append(@, [id |-> 22, name |-> "Dev", org |-> "Beta"]),
    !.Hosts       = [i \in {8, 22} |-> IF i = 8 THEN @[8] ELSE << [id |-> 23, name |-> "h1"] >>],
    !.Groups      = [i \in {8, 22} |-> IF i = 8 THEN @[8] ELSE << [id |-> 24, name |-> "g1"] >>],
    !.GroupHosts  = [g \in {11, 24} |-> IF g = 11 THEN @[11] ELSE << 23 >>] ]

\* The ExportedData a run imports.
Data == IF scn.src = "twins" THEN TwinData ELSE BaseData

\* The inputs of a round: the destination's type, the exclusion set, and the
\* way the set is supplied: "Run" for the exclude of a POST /migrate/run
\* request, which reaches importAll through MigrationRunHandler and Run;
\* "importAll" for the exclude parameter of a call of importAll itself.
Scenarios == {
    [dstType |-> "awx", exclude |-> {}, via |-> "Run", src |-> "base"],
    [dstType |-> "aap", exclude |-> {}, via |-> "Run", src |-> "base"],
    [dstType |-> "awx", exclude |-> {<<"job_templates", "Deploy">>}, via |-> "Run",
     src |-> "base"],
    [dstType |-> "awx", exclude |-> {<<"job_templates", "Deploy">>}, via |-> "importAll",
     src |-> "base"],
    [dstType |-> "aap", exclude |-> {<<"inventories", "Dev">>, <<"organizations", "Beta">>},
     via |-> "importAll", src |-> "base"] }

\* The rounds that import TwinData.
TwinScenarios == {
    [dstType |-> "awx", exclude |-> {}, via |-> "Run", src |-> "twins"],
    [dstType |-> "aap", exclude |-> {<<"projects", "Site">>}, via |-> "importAll",
     src |-> "twins"] }

\* MigrationRunHandler and Run: the request is decoded into source_id,
\* destination_id and preview_job_id, and Run takes no exclusion set, so
\* whatever the request names, importAll is given none.
RunExclude(requested) == {}

\* A Go map read: the zero value for a key the map does not hold.
Lookup(m, k) == IF k \in DOMAIN m THEN m[k] ELSE 0
Put(m, k, v) == [x \in DOMAIN m \cup {k} |-> IF x = k THEN v ELSE m[x]]
SeqAt(m, k) == IF k \in DOMAIN m THEN m[k] ELSE << >>

Max(S) == CHOOSE x \in S : \A y \in S : y <= x
Min(S) == CHOOSE x \in S : \A y \in S : x <= y

\* ------------------------------------------------- the destination's rows

\* A row of the destination: an object (its type, ID, name, and the ID of the
\* object it lives under, 0 for one that lives under none), an association (type the
\* sub-collection, parent the owner, id the member) or a survey spec.
Row(type, id, name, parent) == [type |-> type, id |-> id, name |-> name, parent |-> parent]

\* A POST request: the run that sent it, the collection it goes to, the ID in
\* its path (0 for a top-level collection), the name or the {"id": n} of its
\* body, the reference fields (and a credential's inputs) of its payload, and
\* whether it got a 2xx.
Post(path, parent, name, id, refs, ok) ==
    [run |-> run, path |-> path, parent |-> parent, name |-> name, id |-> id,
     refs |-> refs, ok |-> ok]

\* The destination before the first run: one managed credential type.
DestInit == { Row("credential_types", 101, "Machine", 0) }

\* Client.FindByName on a top-level collection: the first result, 0 for none.
FindByName(type, name) ==
    LET hits == {r \in dest : r.type = type /\ r.name = name} IN
    IF hits = {} THEN 0 ELSE Min({r.id : r \in hits})

\* Client.FindByName on a sub-collection of the object `parent`.
FindUnder(type, parent, name) ==
    LET hits == {r \in dest : r.type = type /\ r.parent = parent /\ r.name = name} IN
    IF hits = {} THEN 0 ELSE Min({r.id : r \in hits})

\* ---------------------------------------------------------------- preflight

previewOrder == << "organizations", "teams", "users", "credential_types", "credentials",
                   "projects", "inventories", "job_templates", "workflow_job_templates",
                   "schedules" >>

\* dataForType(data, typeName); dataForType below is its value for Data.
dataForTypeIn(d, typeName) ==
    CASE typeName = "organizations" -> d.Organizations
      [] typeName = "teams" -> d.Teams
      [] typeName = "users" -> d.Users
      [] typeName = "credential_types" -> d.CredentialTypes
      [] typeName = "credentials" -> d.Credentials
      [] typeName = "projects" -> d.Projects
      [] typeName = "inventories" -> d.Inventories
      [] typeName = "job_templates" -> d.JobTemplates
      [] typeName = "workflow_job_templates" -> d.WorkflowJTs
      [] typeName = "schedules" -> d.Schedules
      [] OTHER -> << >>

dataForType(typeName) == dataForTypeIn(Data, typeName)

\* One entry of the preview: skip_exists with the ID of the destination's
\* object when the lookup by natural key returns one without an error,
\* create otherwise.
classifyBySourceID(rt, item, failed) ==
    LET existing == IF failed THEN 0 ELSE FindByName(rt, item.name) IN
    [sourceID |-> item.id, name |-> item.name,
     action |-> IF existing # 0 THEN "skip_exists" ELSE "create",
     destID |-> IF existing # 0 THEN item.id ELSE 0]

classify(rt, item, failed) ==
    LET existing == IF failed THEN 0 ELSE FindByName(rt, item.name) IN
    [sourceID |-> item.id, name |-> item.name,
     action |-> IF existing # 0 THEN "skip_exists" ELSE "create",
     destID |-> existing]

\* preflightCheck: one MigrationResource per exported item, in the export's
\* order; `bad` holds the lookups (type, index) that end with an error.
preflightCheck(bad) ==
    [rt \in {previewOrder[t] : t \in DOMAIN previewOrder} |->
        LET items == dataForType(rt) IN
        [i \in DOMAIN items |-> classify(rt, items[i], <<rt, i>> \in bad)]]

\* The lookups of a preflight that may end with an error (a network error
\* or a non-2xx answer), one at most and only while the destination may
\* still refuse a request.
FailingLookups == {<<"organizations", 1>>, <<"workflow_job_templates", 1>>}

\* ---------------------------------------------------------------- importAll

newIDMap == [orgs |-> << >>, teams |-> << >>, users |-> << >>, credTypes |-> << >>,
             creds |-> << >>, projects |-> << >>, invs |-> << >>, hosts |-> << >>,
             groups |-> << >>, jts |-> << >>, wfjts |-> << >>, credTypeByID |-> << >>,
             nodes |-> << >>]

\* actionFor: the action and destID of the first preview entry of that name.
actionFor(typeName, name) ==
    LET mrs == SeqAt(preview, typeName)
        hit == {i \in DOMAIN mrs : mrs[i].name = name} IN
    IF hit = {} THEN [action |-> "create", destID |-> 0]
    ELSE [action |-> mrs[Min(hit)].action, destID |-> mrs[Min(hit)].destID]

\* The exclude parameter of importAll.
excludeArg == IF scn.via = "Run" THEN RunExclude(scn.exclude) ELSE scn.exclude

isExcluded(typeName, name) == <<typeName, name>> \in excludeArg

\* No importer is running: the state before the first preview.
ImportIdleIn(scenarios, rows) ==
    /\ scn \in scenarios
    /\ run = 0
    /\ preview = << >>
    /\ ids = newIDMap
    /\ ipc = [ph |-> "none", at |-> "enter", i |-> 0, j |-> 0]
    /\ todo = {}
    /\ waitList = << >>
    /\ srcHostNames = << >>
    /\ dest = rows
    /\ nextID = Max({r.id : r \in rows}) + 1
    /\ posts = << >>
    /\ failsLeft = MaxPostFailures
    /\ badLookups = {}
    /\ preloadOK = TRUE

ImportIdleOn(rows) == ImportIdleIn(Scenarios, rows)

ImportIdle == ImportIdleOn(DestInit)

\* The same for the specifications that leave the importer out.
ImportUnused == ImportIdle /\ scn = [dstType |-> "awx", exclude |-> {}, via |-> "Run", src |-> "base"]

InitJob ==
    /\ JobCreated /\ HandlersIdle /\ StoreEmpty /\ ImportUnused
    /\ ExportUnused /\ ClientUnused /\ VersionsUnused /\ LibUnused

\* The Job's methods called by any callers, in any order.
NextJobAPI ==
    \/ ClockTick
    \/ ApiAppendLog
    \/ ApiLogsSince
    \/ ApiComplete
    \/ ApiFail
    \/ ApiCancel

SpecJobAPI == InitJob /\ [][NextJobAPI]_vars

\* -------------------------------------------- the worker goroutine of a job
\* (RunCleanup, RunPopulate, RunExport and the migration handlers share it:
\*  run the operation with job.AppendLog as its logger, then Fail or Complete)

\* The operation logs a line.
WorkerLog ==
    /\ wpc = "work"
    /\ Len(output) < MaxLines
    /\ \E l \in LogLines : LogCall(l)
    /\ UNCHANGED <<status, jobError, finishedAt, cancelled, now, apiRead>>
    /\ UNCHANGED <<workerVars, cancelVars, streamVars, toolVars, storeVars, importVars>>

\* The operation returned nil: job.Complete().
WorkerComplete ==
    /\ wpc = "work"
    /\ Complete
    /\ wpc' = "done"
    /\ UNCHANGED <<output, cancelled, now, appendCalls, apiRead, werr>>
    /\ UNCHANGED <<cancelVars, streamVars, toolVars, storeVars, importVars>>

\* The operation returned an error: job.AppendLog("ERROR: " + err.Error()).
WorkerErrLog ==
    /\ wpc = "work"
    /\ \E e \in Errs :
        /\ werr' = e
        /\ LogCall(Line("ERROR", e, 0))
    /\ wpc' = "fail"
    /\ UNCHANGED <<status, jobError, finishedAt, cancelled, now, apiRead>>
    /\ UNCHANGED <<cancelVars, streamVars, toolVars, storeVars, importVars>>

\* ... then job.Fail(err.Error()).
WorkerFail ==
    /\ wpc = "fail"
    /\ Fail(werr)
    /\ wpc' = "done"
    /\ UNCHANGED <<output, cancelled, now, appendCalls, apiRead, werr>>
    /\ UNCHANGED <<cancelVars, streamVars, toolVars, storeVars, importVars>>

\* ------------------------------------------------------------- CancelJob

\* The handler reads job.Status: 409 unless the job is running.
CancelCheck ==
    /\ cpc = "idle"
    /\ cancelsLeft > 0
    /\ cancelsLeft' = cancelsLeft - 1
    /\ IF status # "running"
       THEN cancelResp' = 409 /\ cpc' = "idle"
       ELSE cancelResp' = 0 /\ cpc' = "cancel"
    /\ UNCHANGED <<jobVars, workerVars, streamVars, toolVars, storeVars, importVars>>

\* job.Cancel()
CancelSet ==
    /\ cpc = "cancel"
    /\ Cancel
    /\ cpc' = "log"
    /\ UNCHANGED <<status, jobError, finishedAt, output, now, appendCalls, apiRead>>
    /\ UNCHANGED <<cancelsLeft, cancelResp, workerVars, streamVars, toolVars, storeVars, importVars>>

\* job.AppendLog("CANCELLED: migration stopped by user"), then 200.
CancelLog ==
    /\ cpc = "log"
    /\ LogCall(Line("CANCELLED: migration stopped by user", "", 0))
    /\ cancelResp' = 200
    /\ cpc' = "idle"
    /\ UNCHANGED <<status, jobError, finishedAt, cancelled, now, apiRead>>
    /\ UNCHANGED <<cancelsLeft, workerVars, streamVars, toolVars, storeVars, importVars>>

\* --------------------------------------------------------- StreamJobLogs

\* A tick: lines := job.LogsSince(offset); every line is written, offset++.
StreamTick(s) ==
    /\ spc[s] = "wait"
    /\ LET got == LogsSince(offset[s]) IN
        /\ lines' = [lines EXCEPT ![s] = got]
        /\ sent' = [sent EXCEPT ![s] = sent[s] \o got]
        /\ offset' = [offset EXCEPT ![s] = offset[s] + Len(got)]
    /\ spc' = [spc EXCEPT ![s] = "check"]
    /\ UNCHANGED <<closeReason, jobVars, workerVars, cancelVars, storeVars, importVars, toolVars>>

\* A tick in which conn.WriteMessage fails after k lines: the handler returns.
StreamWriteError(s) ==
    /\ spc[s] = "wait"
    /\ LET got == LogsSince(offset[s]) IN
        \E k \in 0..(Len(got) - 1) :
            /\ lines' = [lines EXCEPT ![s] = got]
            /\ sent' = [sent EXCEPT ![s] = sent[s] \o SubSeq(got, 1, k)]
            /\ offset' = [offset EXCEPT ![s] = offset[s] + k]
    /\ spc' = [spc EXCEPT ![s] = "aborted"]
    /\ UNCHANGED <<closeReason, jobVars, workerVars, cancelVars, storeVars, importVars, toolVars>>

\* The end of the tick: the job is done and this tick read nothing: close.
StreamCheckCompletedOnly(s) ==
    /\ spc[s] = "check"
    /\ IF status = "completed" /\ Len(lines[s]) = 0
       THEN /\ closeReason' = [closeReason EXCEPT ![s] = status]
            /\ spc' = [spc EXCEPT ![s] = "closed"]
       ELSE /\ spc' = [spc EXCEPT ![s] = "wait"]
            /\ UNCHANGED closeReason
    /\ UNCHANGED <<offset, lines, sent, jobVars, workerVars, cancelVars, storeVars, importVars, toolVars>>

StreamCheck(s) ==
    /\ spc[s] = "check"
    /\ IF (status = "completed" \/ status = "failed") /\ Len(lines[s]) = 0
       THEN /\ closeReason' = [closeReason EXCEPT ![s] = status]
            /\ spc' = [spc EXCEPT ![s] = "closed"]
       ELSE /\ spc' = [spc EXCEPT ![s] = "wait"]
            /\ UNCHANGED closeReason
    /\ UNCHANGED <<offset, lines, sent, jobVars, workerVars, cancelVars, storeVars, importVars, toolVars>>

\* ------------------------------------------- the job runtime, specifications

\* One job, its worker, the cancel requests and the log streams.
NextJob ==
    \/ WorkerLog
    \/ WorkerComplete
    \/ WorkerErrLog
    \/ WorkerFail
    \/ CancelCheck
    \/ CancelSet
    \/ CancelLog
    \/ \E s \in Streams : StreamTick(s)
    \/ \E s \in Streams : StreamWriteError(s)
    \/ \E s \in Streams : StreamCheck(s)

SpecJob == InitJob /\ [][NextJob]_vars

\* The same with every subscriber's connection staying up, the ticker firing
\* (every 200 ms) and the goroutines of the worker and of the cancel handler
\* being scheduled.
NextJobLive ==
    \/ WorkerLog
    \/ WorkerComplete
    \/ WorkerErrLog
    \/ WorkerFail
    \/ CancelCheck
    \/ CancelSet
    \/ CancelLog
    \/ \E s \in Streams : StreamTick(s)
    \/ \E s \in Streams : StreamCheck(s)

SpecJobLive ==
    /\ InitJob
    /\ [][NextJobLive]_vars
    /\ \A s \in Streams : WF_vars(StreamTick(s)) /\ WF_vars(StreamCheck(s))

\* ------------------------------------- PreviewStore and the migration handlers

\* PreviewStore.Store, under ps.mu; StoreDropped keeps no entry.
StoreDropped(jobID) == previews' = previews
Store(jobID) == previews' = previews \cup {jobID}

\* PreviewStore.Get, under ps.mu: nil when the job ID has no entry.
Get(jobID) == jobID \in previews

\* PreviewStore.Delete, under ps.mu.
Delete(jobID) == previews' = previews \ {jobID}

\* MigrationPreviewHandler: the job is created and its goroutine started.
PreviewRequest(p) ==
    /\ pjob[p] = "none"
    /\ pjob' = [pjob EXCEPT ![p] = "running"]
    /\ UNCHANGED <<previews, storeCalls, rreq, pget>>
    /\ UNCHANGED <<jobVars, workerVars, cancelVars, streamVars, toolVars, importVars>>

\* migration.Preview returned an error: job.Fail, nothing is stored.
PreviewFail(p) ==
    /\ pjob[p] = "running"
    /\ pjob' = [pjob EXCEPT ![p] = "failed"]
    /\ UNCHANGED <<previews, storeCalls, rreq, pget>>
    /\ UNCHANGED <<jobVars, workerVars, cancelVars, streamVars, toolVars, importVars>>

\* migration.Preview returned a preview: s.Previews.Store(job.ID, ...).
PreviewStore(p) ==
    /\ pjob[p] = "running"
    /\ Store(p)
    /\ storeCalls' = [storeCalls EXCEPT ![p] = storeCalls[p] + 1]
    /\ pjob' = [pjob EXCEPT ![p] = "stored"]
    /\ UNCHANGED <<rreq, pget>>
    /\ UNCHANGED <<jobVars, workerVars, cancelVars, streamVars, toolVars, importVars>>

\* ... then job.Complete().
PreviewComplete(p) ==
    /\ pjob[p] = "stored"
    /\ pjob' = [pjob EXCEPT ![p] = "completed"]
    /\ UNCHANGED <<previews, storeCalls, rreq, pget>>
    /\ UNCHANGED <<jobVars, workerVars, cancelVars, streamVars, toolVars, importVars>>

\* MigrationRunHandler: 404 when the store has no entry for the preview job
\* ID; else the run job is created and its goroutine runs the import.
RunRequest(r, p) ==
    /\ rreq[r].state = "new"
    /\ IF Get(p)
       THEN rreq' = [rreq EXCEPT ![r] =
                        [state |-> "running", preview |-> p, status |-> "running"]]
       ELSE rreq' = [rreq EXCEPT ![r] =
                        [state |-> "notfound", preview |-> p, status |-> ""]]
    /\ UNCHANGED <<pjob, previews, storeCalls, pget>>
    /\ UNCHANGED <<jobVars, workerVars, cancelVars, streamVars, toolVars, importVars>>

\* migration.Run returned (nil, an error, or the cancellation error):
\* job.Complete() or job.Fail(err).
RunEnd(r) ==
    /\ rreq[r].state = "running"
    /\ \E st \in {"completed", "failed"} :
        rreq' = [rreq EXCEPT ![r].state = "ended", ![r].status = st]
    /\ UNCHANGED <<pjob, previews, storeCalls, pget>>
    /\ UNCHANGED <<jobVars, workerVars, cancelVars, streamVars, toolVars, importVars>>

\* ... then s.Previews.Delete(req.PreviewJobID).
RunCleanup(r) ==
    /\ rreq[r].state = "ended"
    /\ Delete(rreq[r].preview)
    /\ rreq' = [rreq EXCEPT ![r].state = "cleaned"]
    /\ UNCHANGED <<pjob, storeCalls, pget>>
    /\ UNCHANGED <<jobVars, workerVars, cancelVars, streamVars, toolVars, importVars>>

\* GetMigrationPreview reads job.Status: 404 for an unknown job, 409 while
\* the job is running, 200 with the error for a failed job; else it goes on.
PreviewGetStatus(p) ==
    /\ pget.at = "idle"
    /\ pget' = CASE pjob[p] = "none" ->
                    [at |-> "idle", job |-> p, code |-> 404, body |-> "job not found"]
                [] pjob[p] \in {"running", "stored"} ->
                    [at |-> "idle", job |-> p, code |-> 409, body |-> "running"]
                [] pjob[p] = "failed" ->
                    [at |-> "idle", job |-> p, code |-> 200, body |-> "failed"]
                [] OTHER ->
                    [at |-> "get", job |-> p, code |-> 0, body |-> ""]
    /\ UNCHANGED <<pjob, previews, storeCalls, rreq>>
    /\ UNCHANGED <<jobVars, workerVars, cancelVars, streamVars, toolVars, importVars>>

\* ... then s.Previews.Get(jobID): 404 without an entry, else the preview.
PreviewGetCached ==
    /\ pget.at = "get"
    /\ pget' = IF Get(pget.job)
               THEN [pget EXCEPT !.at = "idle", !.code = 200, !.body = "preview"]
               ELSE [pget EXCEPT !.at = "idle", !.code = 404,
                                 !.body = "preview data not found"]
    /\ UNCHANGED <<pjob, previews, storeCalls, rreq>>
    /\ UNCHANGED <<jobVars, workerVars, cancelVars, streamVars, toolVars, importVars>>

NextStore ==
    \/ \E p \in PreviewIDs : PreviewRequest(p)
    \/ \E p \in PreviewIDs : PreviewFail(p)
    \/ \E p \in PreviewIDs : PreviewStore(p)
    \/ \E p \in PreviewIDs : PreviewComplete(p)
    \/ \E r \in RunRequests, p \in PreviewIDs : RunRequest(r, p)
    \/ \E r \in RunRequests : RunEnd(r)
    \/ \E r \in RunRequests : RunCleanup(r)
    \/ \E p \in PreviewIDs : PreviewGetStatus(p)
    \/ PreviewGetCached

SpecStore == InitJob /\ [][NextStore]_vars

\* ------------------------------------------ the importer: its steps' parts

\* The phases of importAll, in the order of its code.
phaseOrder == << "organizations", "credential_types", "users", "teams", "credentials",
                 "projects", "project_wait", "inventories", "hosts", "groups",
                 "job_templates", "schedules", "workflow_job_templates",
                 "workflow_nodes", "org_users", "team_users", "returned" >>

phaseAfter(ph) == phaseOrder[1 + CHOOSE n \in DOMAIN phaseOrder : phaseOrder[n] = ph]

\* The position before the header of the phase after `ph`.
Enter(ph) == [ph |-> ph, at |-> "enter", i |-> 0, j |-> 0]

\* The position after item i of n: the next item, or the next phase.
Advance(i, n) == IF i < n THEN [ipc EXCEPT !.i = i + 1, !.j = 0] ELSE Enter(phaseAfter(ipc.ph))

\* logger(...) for each line of `ls`: job.AppendLog.
Log(ls) ==
    /\ output' = output \o ls
    /\ appendCalls' = appendCalls \o ls

\* The answers of the destination to a create POST: 201; 400 for a name the
\* collection already holds under the same parent (for a team, credential,
\* project, inventory or workflow job template: in the same organization, the
\* rule under which a source holds two teams of one name); an error status
\* while it may still refuse.
CreateOutcomes(type, parent, name) ==
    IF name # "" /\ \E r \in dest : r.type = type /\ r.parent = parent /\ r.name = name
    THEN {"exists"}
    ELSE {"created"} \cup (IF failsLeft > 0 THEN {"error"} ELSE {})

\* The requests `ps` go out, the rows `rows` are new on the destination,
\* `made` IDs are used and `refused` create POSTs got an error status.
Issue(ps, rows, made, refused) ==
    /\ posts' = posts \o ps
    /\ dest' = dest \cup rows
    /\ nextID' = nextID + made
    /\ failsLeft' = failsLeft - refused

\* The organization a payload names, 0 when it names none.
OrgIn(refs) == IF "organization" \in DOMAIN refs THEN refs.organization ELSE 0

\* createResource: the POST, and the new row with the next ID on a 2xx; a row
\* of a top-level collection lives under the organization of its payload.
createResource(path, type, parent, name, refs, out) ==
    Issue(<< Post(path, parent, name, 0, refs, out = "created") >>,
          IF out = "created"
          THEN {Row(type, nextID, name, IF parent = 0 THEN OrgIn(refs) ELSE parent)}
          ELSE {},
          IF out = "created" THEN 1 ELSE 0,
          IF out = "error" THEN 1 ELSE 0)

NoPost == UNCHANGED <<dest, nextID, posts, failsLeft>>

\* What no step of importAll changes.
ImportFrame ==
    /\ UNCHANGED <<status, jobError, finishedAt, cancelled, now, apiRead>>
    /\ UNCHANGED <<wpc, scn, run, preview, cancelVars, streamVars, toolVars, storeVars>>
    /\ UNCHANGED <<badLookups, preloadOK>>

\* ctx.Err() != nil: the job's cancellation flag is set.
ctxErr == cancelled

\* ------------------------------------------- preview and the run handler

\* MigrationPreviewHandler's goroutine: Preview classifies every exported
\* item against the destination, and the preview is stored under its job ID.
Preflight ==
    /\ run < MaxRuns
    /\ \/ run = 0 /\ wpc = "none"
       \/ wpc = "done" /\ cpc = "idle"
    /\ run' = run + 1
    /\ \E bad \in {{}} \cup (IF failsLeft > 0 THEN {{l} : l \in FailingLookups} ELSE {}) :
        /\ preview' = preflightCheck(bad)
        /\ badLookups' = bad
        /\ failsLeft' = failsLeft - Cardinality(bad)
    /\ Store(run + 1)
    /\ wpc' = "previewed"
    /\ UNCHANGED <<jobVars, werr, cancelVars, streamVars, toolVars, pjob, storeCalls, rreq, pget>>
    /\ UNCHANGED <<scn, ids, ipc, todo, waitList, srcHostNames, dest, nextID, posts, preloadOK>>

\* `allDestCT, _ := dst.GetAll(...)` and the loop over it: the credential
\* types of the destination by name; none when the read ended with an error.
preloadCredTypes(ok) ==
    IF ok
    THEN [n \in {r.name : r \in {x \in dest : x.type = "credential_types"}} |->
             FindByName("credential_types", n)]
    ELSE << >>

\* MigrationRunHandler: Previews.Get, Jobs.Create, and the goroutine up to
\* importAll's first phase: Run's two lines, newIDMap, the credential types
\* of the destination by name.
RunStart ==
    /\ wpc = "previewed"
    /\ Get(run)
    /\ status' = "running"
    /\ jobError' = ""
    /\ finishedAt' = 0
    /\ cancelled' = FALSE
    /\ output' = << Line("=== Starting migration", "", 0), Line("", "", 0) >>
    /\ appendCalls' = output'
    /\ \E ok \in {TRUE} \cup (IF failsLeft > 0 THEN {FALSE} ELSE {}) :
        /\ preloadOK' = ok
        /\ failsLeft' = IF ok THEN failsLeft ELSE failsLeft - 1
        /\ ids' = [newIDMap EXCEPT !.credTypes = preloadCredTypes(ok)]
    /\ ipc' = Enter("organizations")
    /\ todo' = {}
    /\ waitList' = << >>
    /\ srcHostNames' = << >>
    /\ wpc' = "work"
    /\ werr' = ""
    /\ UNCHANGED <<now, apiRead, cancelVars, streamVars, toolVars, storeVars>>
    /\ UNCHANGED <<scn, run, preview, dest, nextID, posts, badLookups>>

\* The check at a phase's start: a cancelled run logs and returns ctx.Err().
Cancelled ==
    /\ Log(<< Line("Migration cancelled by user", "", 0) >>)
    /\ werr' = "context canceled"
    /\ ipc' = Enter("returned")
    /\ NoPost
    /\ UNCHANGED <<ids, todo, waitList, srcHostNames>>
    /\ ImportFrame

\* The phases whose header follows a check of ctx.Err() and whose loop is
\* over a list of the export.
listPhases == {"organizations", "credential_types", "users", "teams", "credentials",
               "projects", "inventories", "job_templates", "schedules",
               "workflow_job_templates", "workflow_nodes", "org_users"}

itemsOf(ph) ==
    CASE ph = "organizations" -> Data.Organizations
      [] ph = "credential_types" -> Data.CredentialTypes
      [] ph = "users" -> Data.Users
      [] ph = "teams" -> Data.Teams
      [] ph = "credentials" -> Data.Credentials
      [] ph = "projects" -> Data.Projects
      [] ph = "inventories" -> Data.Inventories
      [] ph = "job_templates" -> Data.JobTemplates
      [] ph = "schedules" -> Data.Schedules
      [] ph = "workflow_job_templates" -> Data.WorkflowJTs
      [] ph = "workflow_nodes" -> Data.WorkflowJTs
      [] ph = "org_users" -> Data.Organizations
      [] ph = "team_users" -> Data.Teams
      [] OTHER -> << >>

\* The first position of a phase's loop, the next phase's for an empty list.
FirstItem(ph) ==
    IF Len(itemsOf(ph)) = 0 THEN Enter(phaseAfter(ph))
    ELSE [ph |-> ph, at |-> "items", i |-> 1, j |-> 0]

\* `if ctx.Err() != nil { ... return ctx.Err() }`, then the phase's header.
PhaseEnter ==
    /\ wpc = "work"
    /\ ipc.ph \in listPhases
    /\ ipc.at = "enter"
    /\ IF ctxErr THEN Cancelled
       ELSE /\ Log(<< Line("=== Importing", ipc.ph, 0) >>)
            /\ ipc' = FirstItem(ipc.ph)
            /\ werr' = werr
            /\ NoPost
            /\ UNCHANGED <<ids, todo, waitList, srcHostNames>>
            /\ ImportFrame

\* ----------------------------------------- importAll: phases 1 to 7

\* The end of one iteration of a phase's loop: its log lines, the idMap
\* after it, and the loop's next position.
ItemDoneReturnOnFail(ls, newIDs) ==
    /\ Log(ls)
    /\ ids' = newIDs
    /\ IF \E n \in DOMAIN ls : ls[n].kind = "FAIL"
       THEN ipc' = Enter("returned") /\ werr' = "create failed"
       ELSE ipc' = Advance(ipc.i, Len(itemsOf(ipc.ph))) /\ werr' = werr
    /\ UNCHANGED <<todo, srcHostNames>>
    /\ ImportFrame

ItemDone(ls, newIDs) ==
    /\ Log(ls)
    /\ ids' = newIDs
    /\ ipc' = Advance(ipc.i, Len(itemsOf(ipc.ph)))
    /\ werr' = werr
    /\ UNCHANGED <<todo, srcHostNames>>
    /\ ImportFrame

AtItem(ph) == wpc = "work" /\ ipc.ph = ph /\ ipc.at = "items"

\* 1. Organizations
ImportOrganization ==
    /\ AtItem("organizations")
    /\ LET name == Data.Organizations[ipc.i].name
           a == actionFor("organizations", name)
       IN  IF isExcluded("organizations", name)
           THEN NoPost /\ ItemDone(<< Line("EXCLUDED", name, 0) >>, ids)
           ELSE IF a.action # "create"
           THEN NoPost /\ ItemDone(<< Line("SKIP (exists)", name, 0) >>,
                                   [ids EXCEPT !.orgs = Put(@, name, a.destID)])
           ELSE \E out \in CreateOutcomes("organizations", 0, name) :
                   /\ createResource("organizations", "organizations", 0, name, << >>, out)
                   /\ IF out = "created"
                      THEN ItemDone(<< Line("CREATED", name, nextID) >>,
                                    [ids EXCEPT !.orgs = Put(@, name, nextID)])
                      ELSE ItemDone(<< Line("FAIL", name, 0) >>, ids)
    /\ UNCHANGED waitList

\* 2. Credential types
ImportCredentialType ==
    /\ AtItem("credential_types")
    /\ LET ct == Data.CredentialTypes[ipc.i]
           name == ct.name
           a == actionFor("credential_types", name)
       IN  IF isExcluded("credential_types", name)
           THEN NoPost /\ ItemDone(<< Line("EXCLUDED", name, 0) >>, ids)
           ELSE IF a.action # "create"
           THEN NoPost /\ ItemDone(<< Line("SKIP (exists)", name, 0) >>,
                                   [ids EXCEPT !.credTypes = Put(@, name, a.destID),
                                               !.credTypeByID = Put(@, ct.id, a.destID)])
           ELSE \E out \in CreateOutcomes("credential_types", 0, name) :
                   /\ createResource("credential_types", "credential_types", 0, name, << >>, out)
                   /\ IF out = "created"
                      THEN ItemDone(<< Line("CREATED", name, nextID) >>,
                                    [ids EXCEPT !.credTypes = Put(@, name, nextID),
                                                !.credTypeByID = Put(@, ct.id, nextID)])
                      ELSE ItemDone(<< Line("FAIL", name, 0) >>, ids)
    /\ UNCHANGED waitList

\* 3. Users
ImportUser ==
    /\ AtItem("users")
    /\ LET name == Data.Users[ipc.i].name
           a == actionFor("users", name)
       IN  IF isExcluded("users", name)
           THEN NoPost /\ ItemDone(<< Line("EXCLUDED", name, 0) >>, ids)
           ELSE IF a.action # "create"
           THEN NoPost /\ ItemDone(<< Line("SKIP (exists)", name, 0) >>,
                                   [ids EXCEPT !.users = Put(@, name, a.destID)])
           ELSE \E out \in CreateOutcomes("users", 0, name) :
                   /\ createResource("users", "users", 0, name, << >>, out)
                   /\ IF out = "created"
                      THEN ItemDone(<< Line("CREATED", name, nextID) >>,
                                    [ids EXCEPT !.users = Put(@, name, nextID)])
                      ELSE ItemDone(<< Line("FAIL", name, 0) >>, ids)
    /\ UNCHANGED waitList

\* 4. Teams
ImportTeam ==
    /\ AtItem("teams")
    /\ LET team == Data.Teams[ipc.i]
           name == team.name
           a == actionFor("teams", name)
           orgID == Lookup(ids.orgs, team.org)
       IN  IF isExcluded("teams", name)
           THEN NoPost /\ ItemDone(<< Line("EXCLUDED", name, 0) >>, ids)
           ELSE IF a.action # "create"
           THEN NoPost /\ ItemDone(<< Line("SKIP (exists)", name, 0) >>,
                                   [ids EXCEPT !.teams = Put(@, name, a.destID)])
           ELSE IF orgID = 0
           THEN NoPost /\ ItemDone(<< Line("SKIP: org not found", name, 0) >>, ids)
           ELSE \E out \in CreateOutcomes("teams", orgID, name) :
                   /\ createResource("teams", "teams", 0, name, [organization |-> orgID], out)
                   /\ IF out = "created"
                      THEN ItemDone(<< Line("CREATED", name, nextID) >>,
                                    [ids EXCEPT !.teams = Put(@, name, nextID)])
                      ELSE ItemDone(<< Line("FAIL", name, 0) >>, ids)
    /\ UNCHANGED waitList

\* The inputs of a credential's payload: `map[string]interface{}{}`.
credentialInputsOfSource(cred) == cred.inputs

credentialInputs(cred) == << >>

\* 5. Credentials
ImportCredential ==
    /\ AtItem("credentials")
    /\ LET cred == Data.Credentials[ipc.i]
           name == cred.name
           a == actionFor("credentials", name)
           orgID == Lookup(ids.orgs, cred.org)
           byID == Lookup(ids.credTypeByID, cred.credential_type)
           destCtID == IF byID # 0 THEN byID ELSE Lookup(ids.credTypes, cred.ctName)
       IN  IF isExcluded("credentials", name)
           THEN NoPost /\ ItemDone(<< Line("EXCLUDED", name, 0) >>, ids)
           ELSE IF a.action # "create"
           THEN NoPost /\ ItemDone(<< Line("SKIP (exists)", name, 0) >>,
                                   [ids EXCEPT !.creds = Put(@, name, a.destID)])
           ELSE IF destCtID = 0
           THEN NoPost /\ ItemDone(<< Line("SKIP: credential type not found", name, 0) >>, ids)
           ELSE \E out \in CreateOutcomes("credentials", orgID, name) :
                   /\ createResource("credentials", "credentials", 0, name,
                                     [organization |-> orgID, credential_type |-> destCtID,
                                      inputs |-> credentialInputs(cred)], out)
                   /\ IF out = "created"
                      THEN ItemDone(<< Line("CREATED", name, nextID) >>,
                                    [ids EXCEPT !.creds = Put(@, name, nextID)])
                      ELSE ItemDone(<< Line("FAIL", name, 0) >>, ids)
    /\ UNCHANGED waitList

\* 6. Projects
ImportProject ==
    /\ AtItem("projects")
    /\ LET proj == Data.Projects[ipc.i]
           name == proj.name
           a == actionFor("projects", name)
           orgID == Lookup(ids.orgs, proj.org)
           scmCredID == IF proj.scmCred # "" THEN Lookup(ids.creds, proj.scmCred) ELSE 0
           refs == IF scmCredID # 0
                   THEN [organization |-> orgID, credential |-> scmCredID]
                   ELSE [organization |-> orgID]
       IN  IF isExcluded("projects", name)
           THEN NoPost /\ ItemDone(<< Line("EXCLUDED", name, 0) >>, ids) /\ UNCHANGED waitList
           ELSE IF a.action # "create"
           THEN /\ NoPost
                /\ ItemDone(<< Line("SKIP (exists)", name, 0) >>,
                            [ids EXCEPT !.projects = Put(@, name, a.destID)])
                /\ UNCHANGED waitList
           ELSE \E out \in CreateOutcomes("projects", orgID, name) :
                   /\ createResource("projects", "projects", 0, name, refs, out)
                   /\ IF out = "created"
                      THEN /\ ItemDone(<< Line("CREATED", name, nextID) >>,
                                       [ids EXCEPT !.projects = Put(@, name, nextID)])
                           /\ waitList' = Append(waitList, [name |-> name, id |-> nextID])
                      ELSE /\ ItemDone(<< Line("FAIL", name, 0) >>, ids)
                           /\ UNCHANGED waitList

\* The wait entered whatever the destination's type.
WaitEnterAnyType ==
    /\ wpc = "work" /\ ipc.ph = "project_wait" /\ ipc.at = "enter"
    /\ IF Len(waitList) > 0
       THEN /\ Log(<< Line("Waiting for project syncs...", "", 0) >>)
            /\ ipc' = [ph |-> "project_wait", at |-> "next", i |-> 1, j |-> 0]
       ELSE /\ UNCHANGED <<output, appendCalls>>
            /\ ipc' = Enter("inventories")
    /\ werr' = werr
    /\ NoPost
    /\ UNCHANGED <<ids, todo, waitList, srcHostNames>>
    /\ ImportFrame

\* The wait of the projects this run created, on an AAP destination only.
WaitEnter ==
    /\ wpc = "work" /\ ipc.ph = "project_wait" /\ ipc.at = "enter"
    /\ IF scn.dstType = "aap" /\ Len(waitList) > 0
       THEN /\ Log(<< Line("Waiting for project syncs...", "", 0) >>)
            /\ ipc' = [ph |-> "project_wait", at |-> "next", i |-> 1, j |-> 0]
       ELSE /\ UNCHANGED <<output, appendCalls>>
            /\ ipc' = Enter("inventories")
    /\ werr' = werr
    /\ NoPost
    /\ UNCHANGED <<ids, todo, waitList, srcHostNames>>
    /\ ImportFrame

\* The head of the loop over projectWaitList: the check of ctx.Err().
WaitNextUnchecked ==
    /\ wpc = "work" /\ ipc.ph = "project_wait" /\ ipc.at = "next"
    /\ ipc' = [ipc EXCEPT !.at = "poll", !.j = 0]
    /\ werr' = werr
    /\ NoPost
    /\ UNCHANGED <<output, appendCalls, ids, todo, waitList, srcHostNames>>
    /\ ImportFrame

WaitNext ==
    /\ wpc = "work" /\ ipc.ph = "project_wait" /\ ipc.at = "next"
    /\ IF ctxErr THEN Cancelled
       ELSE /\ ipc' = [ipc EXCEPT !.at = "poll", !.j = 0]
            /\ werr' = werr
            /\ NoPost
            /\ UNCHANGED <<output, appendCalls, ids, todo, waitList, srcHostNames>>
            /\ ImportFrame

\* The statuses a GET of a project that is syncing can show ("failed" stands
\* for failed, error and canceled, "running" for every other status), and
\* the GET that ends with an error.
ProjectStatuses == {"successful", "failed", "running"}
PollOutcomes == ProjectStatuses \cup {"GET failed"}

\* The next project of the list, or phase 7.
AfterWaitSameProject == [ph |-> "project_wait", at |-> "next", i |-> ipc.i, j |-> 0]

AfterWait ==
    IF ipc.i < Len(waitList)
    THEN [ph |-> "project_wait", at |-> "next", i |-> ipc.i + 1, j |-> 0]
    ELSE Enter("inventories")

\* waitForProjectCtx, one turn of its loop: the deadline, ctx.Err(), the GET
\* of the project and its status, the sleep of 3 s. Its caller logs the
\* result and goes on with the next project.
WaitPoll ==
    /\ wpc = "work" /\ ipc.ph = "project_wait" /\ ipc.at = "poll"
    /\ LET pw == waitList[ipc.i] IN
       IF ipc.j >= MaxPolls
       THEN Log(<< Line("WARNING: timeout waiting for project sync", pw.name, 0) >>)
            /\ ipc' = AfterWait
       ELSE IF ctxErr
       THEN Log(<< Line("WARNING: context canceled", pw.name, 0) >>) /\ ipc' = AfterWait
       ELSE \E st \in PollOutcomes :
               CASE st = "successful" ->
                       Log(<< Line("Project sync complete", pw.name, 0) >>) /\ ipc' = AfterWait
                 [] st = "GET failed" ->
                       Log(<< Line("WARNING: GET failed", pw.name, 0) >>) /\ ipc' = AfterWait
                 [] st = "failed" ->
                       Log(<< Line("WARNING: project sync status", pw.name, 0) >>)
                       /\ ipc' = AfterWait
                 [] OTHER ->
                       UNCHANGED <<output, appendCalls>> /\ ipc' = [ipc EXCEPT !.j = @ + 1]
    /\ werr' = werr
    /\ NoPost
    /\ UNCHANGED <<ids, todo, waitList, srcHostNames>>
    /\ ImportFrame

\* 7. Inventories
ImportInventory ==
    /\ AtItem("inventories")
    /\ LET inv == Data.Inventories[ipc.i]
           name == inv.name
           a == actionFor("inventories", name)
           orgID == Lookup(ids.orgs, inv.org)
       IN  IF isExcluded("inventories", name)
           THEN NoPost /\ ItemDone(<< Line("EXCLUDED", name, 0) >>, ids)
           ELSE IF a.action # "create"
           THEN NoPost /\ ItemDone(<< Line("SKIP (exists)", name, 0) >>,
                                   [ids EXCEPT !.invs = Put(@, name, a.destID)])
           ELSE \E out \in CreateOutcomes("inventories", orgID, name) :
                   /\ createResource("inventories", "inventories", 0, name,
                                     [organization |-> orgID], out)
                   /\ IF out = "created"
                      THEN ItemDone(<< Line("CREATED", name, nextID) >>,
                                    [ids EXCEPT !.invs = Put(@, name, nextID)])
                      ELSE ItemDone(<< Line("FAIL", name, 0) >>, ids)
    /\ UNCHANGED waitList

\* srcInvNames, as the loop of phase 7 leaves it: every inventory's name.
srcInvNames ==
    [id \in {Data.Inventories[n].id : n \in DOMAIN Data.Inventories} |->
        (CHOOSE inv \in {Data.Inventories[n] : n \in DOMAIN Data.Inventories} : inv.id = id).name]

\* A Go map of strings read: "" for a key the map does not hold.
LookupStr(m, k) == IF k \in DOMAIN m THEN m[k] ELSE ""

\* ------------------------------------- importAll: phases 8 and 9, per inventory

\* The check and the header of a phase that ranges over a map of the export.
MapPhaseEnter(ph, keys) ==
    /\ wpc = "work" /\ ipc.ph = ph /\ ipc.at = "enter"
    /\ IF ctxErr THEN Cancelled
       ELSE /\ Log(<< Line("=== Importing", ph, 0) >>)
            /\ todo' = keys
            /\ ipc' = IF keys = {} THEN Enter(phaseAfter(ph))
                      ELSE [ph |-> ph, at |-> "inv", i |-> 0, j |-> 0]
            /\ werr' = werr
            /\ NoPost
            /\ UNCHANGED <<ids, waitList>>
            /\ ImportFrame

HostsEnter ==
    /\ MapPhaseEnter("hosts", DOMAIN Data.Hosts)
    /\ srcHostNames' = IF ctxErr THEN srcHostNames ELSE << >>

GroupsEnter ==
    /\ MapPhaseEnter("groups", DOMAIN Data.Groups)
    /\ UNCHANGED srcHostNames

\* The position after an inventory of a range loop: the next key, in the
\* order the map's iteration gives, or the next phase.
NextInv(left) ==
    IF left = {} THEN Enter(phaseAfter(ipc.ph))
    ELSE [ph |-> ipc.ph, at |-> "inv", i |-> 0, j |-> 0]

\* `for srcInvID, hosts := range data.Hosts`: one key, and what precedes the
\* loop over its hosts.
HostsNextInv ==
    /\ wpc = "work" /\ ipc.ph = "hosts" /\ ipc.at = "inv"
    /\ \E srcInvID \in todo :
        LET hosts == Data.Hosts[srcInvID]
            invName == LookupStr(srcInvNames, srcInvID)
            destInvID == Lookup(ids.invs, invName)
        IN  /\ todo' = todo \ {srcInvID}
            /\ IF destInvID = 0
               THEN /\ UNCHANGED <<output, appendCalls, srcHostNames>>
                    /\ ipc' = NextInv(todo')
               ELSE IF isExcluded("inventories", invName)
               THEN /\ Log(<< Line("EXCLUDED (inventory excluded)", invName, 0) >>)
                    /\ srcHostNames' =
                         [id \in DOMAIN srcHostNames \cup {hosts[n].id : n \in DOMAIN hosts} |->
                            IF \E n \in DOMAIN hosts : hosts[n].id = id
                            THEN hosts[CHOOSE n \in DOMAIN hosts : hosts[n].id = id].name
                            ELSE srcHostNames[id]]
                    /\ ipc' = NextInv(todo')
               ELSE IF Len(hosts) = 0
               THEN /\ Log(<< Line("hosts", invName, 0) >>)
                    /\ UNCHANGED srcHostNames
                    /\ ipc' = NextInv(todo')
               ELSE /\ UNCHANGED <<output, appendCalls, srcHostNames>>
                    /\ ipc' = [ph |-> "hosts", at |-> "items", i |-> srcInvID, j |-> 1]
    /\ werr' = werr
    /\ NoPost
    /\ UNCHANGED <<ids, waitList>>
    /\ ImportFrame

\* The position after item j of an inventory's n: the next item, or the
\* next inventory of the map.
NextOfInv(n) == IF ipc.j < n THEN [ipc EXCEPT !.j = @ + 1] ELSE NextInv(todo)

\* One iteration of the loop over an inventory's hosts: the check of
\* ctx.Err(), the exclusion, the lookup under the inventory, the create.
HostItem ==
    /\ wpc = "work" /\ ipc.ph = "hosts" /\ ipc.at = "items"
    /\ IF ctxErr THEN Cancelled
       ELSE LET hosts == Data.Hosts[ipc.i]
                invName == LookupStr(srcInvNames, ipc.i)
                destInvID == Lookup(ids.invs, invName)
                name == hosts[ipc.j].name
                key == <<invName, name>>
                existing == FindUnder("hosts", destInvID, name)
                count == IF ipc.j < Len(hosts) THEN << >>
                         ELSE << Line("hosts", invName, Len(hosts)) >>
            IN  /\ srcHostNames' = Put(srcHostNames, hosts[ipc.j].id, name)
                /\ ipc' = NextOfInv(Len(hosts))
                /\ werr' = werr
                /\ UNCHANGED <<todo, waitList>>
                /\ ImportFrame
                /\ IF isExcluded("hosts", name)
                   THEN /\ NoPost
                        /\ Log(<< Line("EXCLUDED", name, 0) >> \o count)
                        /\ UNCHANGED ids
                   ELSE IF existing # 0
                   THEN /\ NoPost
                        /\ Log(count)
                        /\ ids' = [ids EXCEPT !.hosts = Put(@, key, existing)]
                   ELSE \E out \in CreateOutcomes("hosts", destInvID, name) :
                           /\ createResource("inventories/hosts", "hosts", destInvID, name,
                                             << >>, out)
                           /\ IF out = "created"
                              THEN /\ Log(count)
                                   /\ ids' = [ids EXCEPT !.hosts = Put(@, key, nextID)]
                              ELSE /\ Log(<< Line("FAIL", name, 0) >> \o count)
                                   /\ UNCHANGED ids

\* `for srcInvID, groups := range data.Groups`: one key, and what precedes
\* the loop over its groups.
GroupsNextInv ==
    /\ wpc = "work" /\ ipc.ph = "groups" /\ ipc.at = "inv"
    /\ \E srcInvID \in todo :
        LET groups == Data.Groups[srcInvID]
            invName == LookupStr(srcInvNames, srcInvID)
            destInvID == Lookup(ids.invs, invName)
        IN  /\ todo' = todo \ {srcInvID}
            /\ IF destInvID = 0 \/ isExcluded("inventories", invName)
               THEN /\ UNCHANGED <<output, appendCalls>>
                    /\ ipc' = NextInv(todo')
               ELSE IF Len(groups) = 0
               THEN /\ Log(<< Line("groups", invName, 0) >>)
                    /\ ipc' = NextInv(todo')
               ELSE /\ UNCHANGED <<output, appendCalls>>
                    /\ ipc' = [ph |-> "groups", at |-> "items", i |-> srcInvID, j |-> 1]
    /\ werr' = werr
    /\ NoPost
    /\ UNCHANGED <<ids, waitList, srcHostNames>>
    /\ ImportFrame

\* The POSTs that associate a group's hosts: one for every host of the
\* export's GroupHosts whose key the idMap holds.
groupHostPosts(invName, srcGroupID, destGroupID) ==
    LET known(h) == <<invName, LookupStr(srcHostNames, h)>> \in DOMAIN ids.hosts
        hs == SelectSeq(SeqAt(Data.GroupHosts, srcGroupID), known)
    IN  [n \in DOMAIN hs |->
            Post("groups/hosts", destGroupID, "",
                 ids.hosts[<<invName, LookupStr(srcHostNames, hs[n])>>], << >>, TRUE)]

\* The rows a sequence of association POSTs leaves on the destination.
assocRows(ps) == {Row(ps[n].path, ps[n].id, ps[n].name, ps[n].parent) : n \in DOMAIN ps}

\* One iteration of the loop over an inventory's groups: the check of
\* ctx.Err(), the lookup under the inventory, the create, the host
\* associations.
GroupItem ==
    /\ wpc = "work" /\ ipc.ph = "groups" /\ ipc.at = "items"
    /\ IF ctxErr THEN Cancelled
       ELSE LET groups == Data.Groups[ipc.i]
                invName == LookupStr(srcInvNames, ipc.i)
                destInvID == Lookup(ids.invs, invName)
                group == groups[ipc.j]
                key == <<invName, group.name>>
                existing == FindUnder("groups", destInvID, group.name)
                count == IF ipc.j < Len(groups) THEN << >>
                         ELSE << Line("groups", invName, Len(groups)) >>
            IN  /\ ipc' = NextOfInv(Len(groups))
                /\ werr' = werr
                /\ UNCHANGED <<todo, waitList, srcHostNames>>
                /\ ImportFrame
                /\ IF existing # 0
                   THEN LET assoc == groupHostPosts(invName, group.id, existing) IN
                        /\ Issue(assoc, assocRows(assoc), 0, 0)
                        /\ Log(count)
                        /\ ids' = [ids EXCEPT !.groups = Put(@, key, existing)]
                   ELSE \E out \in CreateOutcomes("groups", destInvID, group.name) :
                           LET create == Post("inventories/groups", destInvID, group.name, 0,
                                              << >>, out = "created")
                               assoc == groupHostPosts(invName, group.id, nextID)
                           IN  IF out = "created"
                               THEN /\ Issue(<< create >> \o assoc,
                                             {Row("groups", nextID, group.name, destInvID)}
                                                \cup assocRows(assoc), 1, 0)
                                    /\ Log(count)
                                    /\ ids' = [ids EXCEPT !.groups = Put(@, key, nextID)]
                               ELSE /\ Issue(<< create >>, {}, 0, IF out = "error" THEN 1 ELSE 0)
                                    /\ Log(<< Line("FAIL", group.name, 0) >> \o count)
                                    /\ UNCHANGED ids

\* ------------------------------------------- importAll: phases 10 to 13

\* The POSTs that associate a job template's credentials: one for every
\* name of its summary whose ID the idMap holds.
credentialPosts(jt, destJTID) ==
    LET known(c) == Lookup(ids.creds, c) # 0
        cs == SelectSeq(jt.creds, known)
    IN  [n \in DOMAIN cs |->
            Post("job_templates/credentials", destJTID, "", ids.creds[cs[n]], << >>, TRUE)]

\* The POST of the survey the export holds for a template, if any.
surveyPosts(path, srcID, destID) ==
    IF srcID \in Data.Surveys THEN << Post(path, destID, "survey", 0, << >>, TRUE) >> ELSE << >>

\* 10. Job templates
ImportJobTemplate ==
    /\ AtItem("job_templates")
    /\ LET jt == Data.JobTemplates[ipc.i]
           name == jt.name
           a == actionFor("job_templates", name)
           projID == Lookup(ids.projects, jt.project)
           invID == Lookup(ids.invs, jt.inventory)
           refs == [f \in (IF projID # 0 THEN {"project"} ELSE {})
                          \cup (IF invID # 0 THEN {"inventory"} ELSE {}) |->
                       IF f = "project" THEN projID ELSE invID]
       IN  IF isExcluded("job_templates", name)
           THEN NoPost /\ ItemDone(<< Line("EXCLUDED", name, 0) >>, ids)
           ELSE IF a.action # "create"
           THEN NoPost /\ ItemDone(<< Line("SKIP (exists)", name, 0) >>,
                                   [ids EXCEPT !.jts = Put(@, name, a.destID)])
           ELSE \E out \in CreateOutcomes("job_templates", 0, name) :
                   LET create == Post("job_templates", 0, name, 0, refs, out = "created")
                       more == credentialPosts(jt, nextID)
                                 \o surveyPosts("job_templates/survey_spec", jt.id, nextID)
                   IN  IF out = "created"
                       THEN /\ Issue(<< create >> \o more,
                                     {Row("job_templates", nextID, name, 0)} \cup assocRows(more),
                                     1, 0)
                            /\ ItemDone(<< Line("CREATED", name, nextID) >>,
                                        [ids EXCEPT !.jts = Put(@, name, nextID)])
                       ELSE /\ Issue(<< create >>, {}, 0, IF out = "error" THEN 1 ELSE 0)
                            /\ ItemDone(<< Line("FAIL", name, 0) >>, ids)
    /\ UNCHANGED waitList

\* 11. Schedules
ImportSchedule ==
    /\ AtItem("schedules")
    /\ LET sched == Data.Schedules[ipc.i]
           name == sched.name
           jtID == Lookup(ids.jts, sched.parent)
           wfID == Lookup(ids.wfjts, sched.parent)
           destParentID == IF jtID # 0 THEN jtID ELSE wfID
           parentEndpoint == IF wfID # 0 THEN "workflow_job_templates" ELSE "job_templates"
       IN  IF isExcluded("schedules", name)
           THEN NoPost /\ ItemDone(<< Line("EXCLUDED", name, 0) >>, ids)
           ELSE IF destParentID = 0
           THEN NoPost /\ ItemDone(<< Line("SKIP: parent not found", name, 0) >>, ids)
           ELSE \E out \in CreateOutcomes("schedules", destParentID, name) :
                   /\ createResource(parentEndpoint \o "/schedules", "schedules",
                                     destParentID, name, << >>, out)
                   /\ IF out = "created"
                      THEN ItemDone(<< Line("CREATED", name, 0) >>, ids)
                      ELSE ItemDone(<< Line("FAIL", name, 0) >>, ids)
    /\ UNCHANGED waitList

\* 12. Workflow job templates
ImportWorkflowJT ==
    /\ AtItem("workflow_job_templates")
    /\ LET wf == Data.WorkflowJTs[ipc.i]
           name == wf.name
           a == actionFor("workflow_job_templates", name)
           orgID == Lookup(ids.orgs, wf.org)
       IN  IF isExcluded("workflow_job_templates", name)
           THEN NoPost /\ ItemDone(<< Line("EXCLUDED", name, 0) >>, ids)
           ELSE IF a.action # "create"
           THEN NoPost /\ ItemDone(<< Line("SKIP (exists)", name, 0) >>,
                                   [ids EXCEPT !.wfjts = Put(@, name, a.destID)])
           ELSE \E out \in CreateOutcomes("workflow_job_templates", orgID, name) :
                   /\ createResource("workflow_job_templates", "workflow_job_templates", 0,
                                     name, [organization |-> orgID], out)
                   /\ IF out = "created"
                      THEN ItemDone(<< Line("CREATED", name, nextID) >>,
                                    [ids EXCEPT !.wfjts = Put(@, name, nextID)])
                      ELSE ItemDone(<< Line("FAIL", name, 0) >>, ids)
    /\ UNCHANGED waitList

\* What a step inside one workflow's part of phase 13 leaves alone.
NodeFrame ==
    /\ werr' = werr
    /\ UNCHANGED <<todo, waitList, srcHostNames>>
    /\ ImportFrame

\* 13. Workflow nodes: a workflow the idMap does not hold, or one without
\* nodes, is passed over.
NodesOfWorkflow ==
    /\ AtItem("workflow_nodes") /\ ipc.j = 0
    /\ LET wf == Data.WorkflowJTs[ipc.i]
           destWFID == Lookup(ids.wfjts, wf.name)
           nodes == SeqAt(Data.WorkflowNodes, wf.id)
       IN  ipc' = IF destWFID = 0 \/ Len(nodes) = 0
                  THEN Advance(ipc.i, Len(Data.WorkflowJTs))
                  ELSE [ipc EXCEPT !.j = 1]
    /\ NoPost
    /\ UNCHANGED <<output, appendCalls, ids>>
    /\ NodeFrame

\* Pass 1, one node: its unified job template by name, then the create.
NodeCreate ==
    /\ AtItem("workflow_nodes") /\ ipc.j >= 1
    /\ LET wf == Data.WorkflowJTs[ipc.i]
           destWFID == Lookup(ids.wfjts, wf.name)
           nodes == SeqAt(Data.WorkflowNodes, wf.id)
       IN  /\ ipc.j <= Len(nodes)
           /\ LET node == nodes[ipc.j]
                  jtID == Lookup(ids.jts, node.ujt)
                  destUJTID == IF jtID # 0 THEN jtID ELSE Lookup(ids.wfjts, node.ujt)
              IN  IF destUJTID = 0
                  THEN /\ NoPost
                       /\ Log(<< Line("SKIP node: unified_job_template not found", node.ujt, 0) >>)
                       /\ UNCHANGED ids
                  ELSE \E out \in CreateOutcomes("workflow_nodes", destWFID, "") :
                          /\ createResource("workflow_job_templates/workflow_nodes",
                                            "workflow_nodes", destWFID, "",
                                            [unified_job_template |-> destUJTID], out)
                          /\ IF out = "created"
                             THEN /\ UNCHANGED <<output, appendCalls>>
                                  /\ ids' = [ids EXCEPT !.nodes = Put(@, node.id, nextID)]
                             ELSE /\ Log(<< Line("FAIL node", node.ujt, 0) >>)
                                  /\ UNCHANGED ids
    /\ ipc' = [ipc EXCEPT !.j = @ + 1]
    /\ NodeFrame

\* wireEdges: one POST for every edge whose target the idMap holds.
edgePostsUntranslated(node, edgeType) ==
    LET known(t) == Lookup(ids.nodes, t) # 0
        es == SelectSeq(node[edgeType], known)
    IN  [n \in DOMAIN es |->
            Post("workflow_job_template_nodes/" \o edgeType, ids.nodes[node.id], "",
                 es[n], << >>, TRUE)]

edgePosts(node, edgeType) ==
    LET known(t) == Lookup(ids.nodes, t) # 0
        es == SelectSeq(node[edgeType], known)
    IN  [n \in DOMAIN es |->
            Post("workflow_job_template_nodes/" \o edgeType, ids.nodes[node.id], "",
                 ids.nodes[es[n]], << >>, TRUE)]

\* Pass 2: the edges of every node that pass 1 created.
RECURSIVE wirePosts(_)
wirePosts(nodes) ==
    IF nodes = << >> THEN << >>
    ELSE (IF Lookup(ids.nodes, Head(nodes).id) = 0 THEN << >>
          ELSE edgePosts(Head(nodes), "success_nodes")
                 \o edgePosts(Head(nodes), "failure_nodes")
                 \o edgePosts(Head(nodes), "always_nodes"))
         \o wirePosts(Tail(nodes))

\* Pass 2 of one workflow, its count line, and its survey.
NodesWire ==
    /\ AtItem("workflow_nodes")
    /\ LET wf == Data.WorkflowJTs[ipc.i]
           destWFID == Lookup(ids.wfjts, wf.name)
           nodes == SeqAt(Data.WorkflowNodes, wf.id)
           ps == wirePosts(nodes)
                   \o surveyPosts("workflow_job_templates/survey_spec", wf.id, destWFID)
       IN  /\ ipc.j = Len(nodes) + 1
           /\ Issue(ps, assocRows(ps), 0, 0)
           /\ Log(<< Line("Workflow nodes", wf.name, Len(nodes)) >>)
    /\ ipc' = Advance(ipc.i, Len(Data.WorkflowJTs))
    /\ UNCHANGED ids
    /\ NodeFrame

\* ------------------------------------------- importAll: phases 14 and 15

\* The POSTs that add the users of `names` the idMap holds to `destID`.
userPosts(path, destID, names) ==
    LET known(u) == Lookup(ids.users, u) # 0
        us == SelectSeq(names, known)
    IN  [n \in DOMAIN us |-> Post(path, destID, "", ids.users[us[n]], << >>, TRUE)]

\* 14. User-org associations, one organization.
ImportOrgUsers ==
    /\ AtItem("org_users")
    /\ LET org == Data.Organizations[ipc.i]
           destOrgID == Lookup(ids.orgs, org.name)
           users == SeqAt(Data.OrgUsers, org.id)
           ps == IF destOrgID = 0 THEN << >>
                 ELSE userPosts("organizations/users", destOrgID, users)
       IN  /\ Issue(ps, assocRows(ps), 0, 0)
           /\ ItemDone(IF destOrgID # 0 /\ Len(users) > 0
                       THEN << Line("users", org.name, Len(users)) >> ELSE << >>, ids)
    /\ UNCHANGED waitList

\* The last lines of importAll before `return nil`.
complete == << Line("", "", 0), Line("=== Migration complete ===", "", 0) >>

\* 15. User-team associations: the header, with no check of ctx.Err().
TeamUsersEnter ==
    /\ wpc = "work" /\ ipc.ph = "team_users" /\ ipc.at = "enter"
    /\ Log(<< Line("=== Importing", "team_users", 0) >>
           \o (IF Len(Data.Teams) = 0 THEN complete ELSE << >>))
    /\ ipc' = FirstItem("team_users")
    /\ werr' = werr
    /\ NoPost
    /\ UNCHANGED <<ids, todo, waitList, srcHostNames>>
    /\ ImportFrame

\* 15. User-team associations, one team; after the last, importAll returns nil.
ImportTeamUsers ==
    /\ AtItem("team_users")
    /\ LET team == Data.Teams[ipc.i]
           destTeamID == Lookup(ids.teams, team.name)
           users == SeqAt(Data.TeamUsers, team.id)
           ps == IF destTeamID = 0 THEN << >>
                 ELSE userPosts("teams/users", destTeamID, users)
       IN  /\ Issue(ps, assocRows(ps), 0, 0)
           /\ ItemDone((IF destTeamID # 0 /\ Len(users) > 0
                        THEN << Line("users", team.name, Len(users)) >> ELSE << >>)
                       \o (IF ipc.i = Len(Data.Teams) THEN complete ELSE << >>), ids)
    /\ UNCHANGED waitList

\* ------------------------------- MigrationRunHandler, after Run has returned

Returned == wpc = "work" /\ ipc.ph = "returned"

\* Run returned an error: job.AppendLog("ERROR: " + err.Error()).
MigrationErrLog ==
    /\ Returned /\ werr # ""
    /\ LogCall(Line("ERROR", werr, 0))
    /\ wpc' = "fail"
    /\ UNCHANGED <<status, jobError, finishedAt, cancelled, now, apiRead, werr>>
    /\ UNCHANGED <<cancelVars, streamVars, toolVars, storeVars, importVars>>

\* ... then job.Fail(err.Error()).
MigrationFail ==
    /\ wpc = "fail"
    /\ Fail(werr)
    /\ wpc' = "delete"
    /\ UNCHANGED <<output, cancelled, now, appendCalls, apiRead, werr>>
    /\ UNCHANGED <<cancelVars, streamVars, toolVars, storeVars, importVars>>

\* Run returned nil: job.Complete().
MigrationComplete ==
    /\ Returned /\ werr = ""
    /\ Complete
    /\ wpc' = "delete"
    /\ UNCHANGED <<output, cancelled, now, appendCalls, apiRead, werr>>
    /\ UNCHANGED <<cancelVars, streamVars, toolVars, storeVars, importVars>>

\* The goroutine's last statement: h.Previews.Delete(req.PreviewJobID).
MigrationDelete ==
    /\ wpc = "delete"
    /\ Delete(run)
    /\ wpc' = "done"
    /\ UNCHANGED <<jobVars, werr, cancelVars, streamVars, toolVars, pjob, storeCalls, rreq, pget, importVars>>

\* POST /jobs/{id}/cancel for the run job, received while it is running.
CancelRequest ==
    /\ wpc \in {"work", "fail"}
    /\ CancelCheck

\* ------------------------------------------- the migration, specification

\* No job yet, no request: the state before the first preview.
InitImportOn(idle) ==
    /\ status = ""
    /\ jobError = ""
    /\ finishedAt = 0
    /\ output = << >>
    /\ cancelled = FALSE
    /\ now = 1
    /\ appendCalls = << >>
    /\ apiRead = [off |-> 0, lines |-> << >>]
    /\ wpc = "none"
    /\ werr = ""
    /\ cpc = "idle"
    /\ cancelsLeft = MaxCancels
    /\ cancelResp = 0
    /\ spc = [s \in Streams |-> "wait"]
    /\ offset = [s \in Streams |-> 0]
    /\ lines = [s \in Streams |-> << >>]
    /\ sent = [s \in Streams |-> << >>]
    /\ closeReason = [s \in Streams |-> ""]
    /\ StoreEmpty
    /\ idle
    /\ ExportUnused /\ ClientUnused /\ VersionsUnused /\ LibUnused

InitImport == InitImportOn(ImportIdle)

\* The importer on an export whose items share natural keys.
InitTwins == InitImportOn(ImportIdleIn(TwinScenarios, DestInit))

NextImport ==
    \/ Preflight
    \/ RunStart
    \/ PhaseEnter
    \/ ImportOrganization
    \/ ImportCredentialType
    \/ ImportUser
    \/ ImportTeam
    \/ ImportCredential
    \/ ImportProject
    \/ WaitEnter
    \/ WaitNext
    \/ WaitPoll
    \/ ImportInventory
    \/ HostsEnter
    \/ HostsNextInv
    \/ HostItem
    \/ GroupsEnter
    \/ GroupsNextInv
    \/ GroupItem
    \/ ImportJobTemplate
    \/ ImportSchedule
    \/ ImportWorkflowJT
    \/ NodesOfWorkflow
    \/ NodeCreate
    \/ NodesWire
    \/ ImportOrgUsers
    \/ TeamUsersEnter
    \/ ImportTeamUsers
    \/ MigrationErrLog
    \/ MigrationFail
    \/ MigrationComplete
    \/ MigrationDelete
    \/ CancelRequest
    \/ CancelSet
    \/ CancelLog

SpecImport == InitImport /\ [][NextImport]_vars

SpecTwins == InitTwins /\ [][NextImport]_vars

\* The same, with the importer's goroutine running on while it waits: each
\* turn of the wait loops is taken, and each GET of a project returns.
SpecImportLive ==
    /\ SpecImport
    /\ WF_vars(WaitEnter) /\ WF_vars(WaitNext) /\ WF_vars(WaitPoll)

\* ------------------------------------------------------ the source's content

\* A resource as the source's API returns it: id, name (username for a
\* user), the names in its summary_fields (organization, credential_type,
\* project, inventory, unified_job_template), managed, survey_enabled.
Res(id, name) ==
    [id |-> id, name |-> name, org |-> "", ctype |-> "", project |-> "", inventory |-> "",
     parent |-> "", managed |-> FALSE, survey |-> FALSE]

\* A control plane with its stock content (the Default organization, admin,
\* the Demo items, the managed credential types, the system schedules) and a
\* site's own items, all of them under the site's own organization.
CleanSource ==
    [organizations |-> << Res(1, "Default"), Res(2, "Acme") >>,
     teams |-> << [Res(3, "Ops") EXCEPT !.org = "Acme"] >>,
     users |-> << Res(5, "admin"), Res(6, "bob") >>,
     credential_types |-> << [Res(7, "Machine") EXCEPT !.managed = TRUE], Res(8, "Token") >>,
     credentials |-> << [Res(9, "Demo Credential") EXCEPT !.ctype = "Machine"],
                        [Res(11, "apikey") EXCEPT !.org = "Acme", !.ctype = "Token"] >>,
     projects |-> << [Res(12, "Demo Project") EXCEPT !.org = "Default"],
                     [Res(13, "PBooks") EXCEPT !.org = "Acme"] >>,
     inventories |-> << [Res(14, "Demo Inventory") EXCEPT !.org = "Default"],
                        [Res(15, "Dev") EXCEPT !.org = "Acme"] >>,
     job_templates |-> << [Res(16, "Demo Job Template") EXCEPT !.project = "Demo Project",
                                                               !.inventory = "Demo Inventory"],
                          [Res(17, "Deploy") EXCEPT !.project = "PBooks", !.inventory = "Dev",
                                                    !.survey = TRUE] >>,
     workflow_job_templates |-> << [Res(18, "WF") EXCEPT !.org = "Acme", !.survey = TRUE] >>,
     schedules |-> << Res(19, "Cleanup Job Schedule"),
                      [Res(20, "demo nightly") EXCEPT !.parent = "Demo Job Template"],
                      [Res(21, "nightly") EXCEPT !.parent = "Deploy"],
                      [Res(22, "weekly") EXCEPT !.parent = "WF"] >>,
     hosts |-> [i \in {14, 15} |-> IF i = 15 THEN << Res(23, "h1") >> ELSE << >>],
     groups |-> [i \in {14, 15} |-> IF i = 15 THEN << Res(24, "g1") >> ELSE << >>],
     groupHosts |-> [g \in {24} |-> << Res(23, "h1") >>],
     nodes |-> [w \in {18} |-> << Res(25, "") >>],
     surveys |-> {17, 18},
     orgUsers |-> [o \in {1, 2} |-> IF o = 2 THEN << "admin", "bob" >> ELSE << "admin" >>],
     teamUsers |-> [t \in {3, 4, 26} |-> IF t = 3 THEN << "bob", "" >> ELSE << >>]]

\* The same, with a team of the site in the Default organization and a
\* credential of the site of a managed credential type.
StockSource ==
    [CleanSource EXCEPT
        !.teams = @ \o << [Res(4, "Admins") EXCEPT !.org = "Default"] >>,
        !.credentials = @ \o << [Res(10, "cred") EXCEPT !.org = "Acme", !.ctype = "Machine"] >>]

\* The same as the first, with a team whose name is the empty string.
NamelessSource ==
    [CleanSource EXCEPT !.teams = @ \o << [Res(26, "") EXCEPT !.org = "Acme"] >>]

Sources == {CleanSource, StockSource, NamelessSource}

\* The destinations a preview meets: a fresh one, and one that holds some of
\* the names already.
PreviewDests ==
    { DestInit,
      DestInit \cup { Row("organizations", 102, "Acme", 0), Row("users", 103, "bob", 0),
                      Row("schedules", 104, "nightly", 0) } }

\* ------------------------------------------------------------------ Preview

\* An HTTP request of a client: the control plane it goes to, its method,
\* the collection and the ID of its path. Client.Get (and with it GetJSON,
\* FindByName and FindByUsername) and Client.GetAll build a GET.
Request(to, method, path, id) == [to |-> to, method |-> method, path |-> path, id |-> id]

GetRequestAsPost(to, path, id) == Request(to, "POST", path, id)

GetRequest(to, path, id) == Request(to, "GET", path, id)

GetAllRequest(to, path, id) == Request(to, "GET", path, id)

\* Default/system resource names to skip during export.
skipNames(typeName) ==
    CASE typeName = "organizations" -> {"Default"}
      [] typeName = "users" -> {"admin"}
      [] typeName = "credentials" -> {"Demo Credential", "Ansible Galaxy"}
      [] typeName = "projects" -> {"Demo Project"}
      [] typeName = "inventories" -> {"Demo Inventory"}
      [] typeName = "job_templates" -> {"Demo Job Template"}
      [] OTHER -> {}

\* The field of ExportedData that holds the list of a type.
fieldOf(typeName) ==
    CASE typeName = "organizations" -> "Organizations"
      [] typeName = "teams" -> "Teams"
      [] typeName = "users" -> "Users"
      [] typeName = "credential_types" -> "CredentialTypes"
      [] typeName = "credentials" -> "Credentials"
      [] typeName = "projects" -> "Projects"
      [] typeName = "inventories" -> "Inventories"
      [] typeName = "job_templates" -> "JobTemplates"
      [] typeName = "workflow_job_templates" -> "WorkflowJTs"
      [] typeName = "schedules" -> "Schedules"

\* exportAll's data before its first read.
emptyData ==
    [Organizations |-> << >>, Teams |-> << >>, Users |-> << >>, CredentialTypes |-> << >>,
     Credentials |-> << >>, Projects |-> << >>, Inventories |-> << >>, Hosts |-> << >>,
     Groups |-> << >>, GroupHosts |-> << >>, JobTemplates |-> << >>, Surveys |-> {},
     WorkflowJTs |-> << >>, WorkflowNodes |-> << >>, Schedules |-> << >>,
     OrgUsers |-> << >>, TeamUsers |-> << >>]

\* The steps of Preview, in order: the two connectivity checks, the reads of
\* exportAll, preflightCheck, the summary.
previewSteps ==
    << "source_ping", "dest_ping", "organizations", "teams", "users", "credential_types",
       "credentials", "projects", "inventories", "inventory_contents", "job_templates",
       "jt_surveys", "workflow_job_templates", "workflow_nodes", "schedules",
       "user_associations", "preflight", "summary" >>

stepAfter(st) ==
    LET n == CHOOSE k \in DOMAIN previewSteps : previewSteps[k] = st
    IN  IF n = Len(previewSteps) THEN "returned" ELSE previewSteps[n + 1]

\* The types exportAll reads with fetchFiltered.
filteredTypes == {"organizations", "teams", "users", "credentials", "projects",
                  "inventories", "job_templates", "workflow_job_templates"}

\* What a read of the preview job may give: its answer, or an error while
\* reads may still fail.
ReadOutcomes == IF readsLeft > 0 THEN {TRUE, FALSE} ELSE {TRUE}

\* What every step of the preview job leaves alone: it changes its own job's
\* log and neither control plane.
PreviewFrame ==
    /\ UNCHANGED <<status, jobError, finishedAt, cancelled, now, apiRead>>
    /\ UNCHANGED <<workerVars, cancelVars, streamVars, storeVars, importVars>>
    /\ UNCHANGED <<source, clientVars, versionVars, libVars>>

\* Preview returns an error: no preview, no data.
PreviewError(reqs, msg) ==
    /\ requests' = requests \o reqs
    /\ readsLeft' = readsLeft - 1
    /\ xerr' = msg
    /\ xpc' = "returned"
    /\ data' = << >>
    /\ UNCHANGED xlist

\* A step that went through: its requests, its data, the next step.
PreviewStep(reqs, d, spent) ==
    /\ requests' = requests \o reqs
    /\ readsLeft' = readsLeft - spent
    /\ data' = d
    /\ xpc' = stepAfter(xpc)
    /\ UNCHANGED <<xlist, xerr>>

\* Verify connectivity: a GET of the source's organizations.
CheckSource ==
    /\ xpc = "source_ping"
    /\ \E ok \in ReadOutcomes :
        LET reqs == << GetRequest("source", "organizations", 0) >> IN
        IF ok
        THEN /\ PreviewStep(reqs, emptyData, 0)
             /\ Log(<< Line("Checking source connectivity...", "", 0),
                       Line("Source OK", "", 0) >>)
        ELSE /\ PreviewError(reqs, "source connection failed")
             /\ Log(<< Line("Checking source connectivity...", "", 0) >>)
    /\ PreviewFrame

\* ... and a GET of the destination's.
CheckDestination ==
    /\ xpc = "dest_ping"
    /\ \E ok \in ReadOutcomes :
        LET reqs == << GetRequest("destination", "organizations", 0) >> IN
        IF ok
        THEN /\ PreviewStep(reqs, data, 0)
             /\ Log(<< Line("Checking destination connectivity...", "", 0),
                       Line("Destination OK", "", 0) >>)
        ELSE /\ PreviewError(reqs, "destination connection failed")
             /\ Log(<< Line("Checking destination connectivity...", "", 0) >>)
    /\ PreviewFrame

\* fetchFiltered: all resources of a type but those with a default name.
fetchUnfiltered(got, typeName) == got

fetchFiltered(got, typeName) ==
    SelectSeq(got, LAMBDA r : r.name \notin skipNames(typeName))

\* exportAll, steps 1 to 3, 5 to 7, 9 and 11: one list read with fetchFiltered.
ExportFiltered ==
    /\ xpc \in filteredTypes
    /\ \E ok \in ReadOutcomes :
        LET got == source[xpc]
            filtered == fetchFiltered(got, xpc)
            reqs == << GetAllRequest("source", xpc, 0) >>
        IN  IF ok
            THEN /\ PreviewStep(reqs, [data EXCEPT ![fieldOf(xpc)] = filtered], 0)
                 /\ Log(<< Line("Exporting", xpc, 0),
                           Line("skipped defaults", xpc, Len(got) - Len(filtered)) >>)
            ELSE /\ PreviewError(reqs, xpc)
                 /\ Log(<< Line("Exporting", xpc, 0) >>)
    /\ PreviewFrame

\* 4. Credential types: the custom ones only.
customCredentialTypes(got) == SelectSeq(got, LAMBDA ct : ~ct.managed)

ExportCredentialTypes ==
    /\ xpc = "credential_types"
    /\ \E ok \in ReadOutcomes :
        LET custom == customCredentialTypes(source.credential_types)
            reqs == << GetAllRequest("source", "credential_types", 0) >>
        IN  IF ok
            THEN /\ PreviewStep(reqs, [data EXCEPT !.CredentialTypes = custom], 0)
                 /\ Log(<< Line("Exporting", "credential_types", 0),
                           Line("custom credential types", "", Len(custom)) >>)
            ELSE /\ PreviewError(reqs, "credential_types")
                 /\ Log(<< Line("Exporting", "credential_types", 0) >>)
    /\ PreviewFrame

\* The state of a loop of exportAll: the data, the requests and the log
\* lines so far.
Acc(d, reqs, ls) == [d |-> d, reqs |-> reqs, ls |-> ls]

\* The reads of a loop that may end with an error: none, or the one read
\* named by its kind and the ID in its path.
NoFail == <<"none", 0>>
Fails(kinds, idSet) ==
    {NoFail} \cup (IF readsLeft > 0 THEN kinds \X idSet ELSE {})
Spent(fail) == IF fail = NoFail THEN 0 ELSE 1

\* The group-host associations of one inventory's groups.
RECURSIVE groupHostsOf(_, _, _)
groupHostsOf(gs, fail, acc) ==
    IF gs = << >> THEN acc
    ELSE LET g == Head(gs)
             req == GetAllRequest("source", "groups/hosts", g.id)
             gHosts == SeqAt(source.groupHosts, g.id)
             hostIDs == [n \in DOMAIN gHosts |-> gHosts[n].id]
         IN  groupHostsOf(Tail(gs), fail,
                IF fail = <<"group_hosts", g.id>> \/ gHosts = << >>
                THEN Acc(acc.d, Append(acc.reqs, req), acc.ls)
                ELSE Acc([acc.d EXCEPT !.GroupHosts = Put(@, g.id, hostIDs)],
                         Append(acc.reqs, req), acc.ls))

\* 8. Hosts and groups per inventory: a failed read of the hosts or of the
\* groups is logged and the inventory is left.
RECURSIVE inventoryContents(_, _, _)
inventoryContents(invs, fail, acc) ==
    IF invs = << >> THEN acc
    ELSE LET inv == Head(invs)
             hostsReq == GetAllRequest("source", "inventories/hosts", inv.id)
             groupsReq == GetAllRequest("source", "inventories/groups", inv.id)
             hs == SeqAt(source.hosts, inv.id)
             gs == SeqAt(source.groups, inv.id)
             withHosts == [acc.d EXCEPT !.Hosts = Put(@, inv.id, hs)]
             withGroups == [withHosts EXCEPT !.Groups = Put(@, inv.id, gs)]
         IN  inventoryContents(Tail(invs), fail,
                IF fail = <<"hosts", inv.id>>
                THEN Acc(acc.d, Append(acc.reqs, hostsReq),
                         Append(acc.ls, Line("WARNING: failed to get hosts", inv.name, 0)))
                ELSE IF fail = <<"groups", inv.id>>
                THEN Acc(withHosts, acc.reqs \o << hostsReq, groupsReq >>,
                         Append(acc.ls, Line("WARNING: failed to get groups", inv.name, 0)))
                ELSE LET a == groupHostsOf(gs, fail,
                                  Acc(withGroups, acc.reqs \o << hostsReq, groupsReq >>, acc.ls))
                     IN  Acc(a.d, a.reqs, Append(a.ls, Line("Inventory", inv.name, Len(hs)))))

IDsOf(rs) == {rs[n].id : n \in DOMAIN rs}

ExportInventoryContents ==
    /\ xpc = "inventory_contents"
    /\ \E fail \in Fails({"hosts", "groups"}, IDsOf(data.Inventories))
                     \cup Fails({"group_hosts"}, DOMAIN source.groupHosts) :
        LET a == inventoryContents(data.Inventories, fail, Acc(data, << >>, << >>)) IN
        /\ PreviewStep(a.reqs, a.d, Spent(fail))
        /\ Log(a.ls)
    /\ PreviewFrame

\* 10 and 12: the survey spec of a template whose survey is enabled.
surveyOf(kind, t, fail, acc) ==
    IF ~t.survey THEN acc
    ELSE LET req == GetRequest("source", kind \o "/survey_spec", t.id) IN
         IF fail = <<"survey", t.id>> \/ t.id \notin source.surveys
         THEN Acc(acc.d, Append(acc.reqs, req), acc.ls)
         ELSE Acc([acc.d EXCEPT !.Surveys = @ \cup {t.id}], Append(acc.reqs, req), acc.ls)

RECURSIVE jtSurveys(_, _, _)
jtSurveys(jts, fail, acc) ==
    IF jts = << >> THEN acc
    ELSE jtSurveys(Tail(jts), fail, surveyOf("job_templates", Head(jts), fail, acc))

ExportJTSurveys ==
    /\ xpc = "jt_surveys"
    /\ \E fail \in Fails({"survey"}, IDsOf(data.JobTemplates)) :
        LET a == jtSurveys(data.JobTemplates, fail, Acc(data, << >>, << >>)) IN
        /\ PreviewStep(a.reqs, a.d, Spent(fail))
        /\ Log(a.ls)
    /\ PreviewFrame

\* 12. Workflow nodes and surveys: a failed read of the nodes is logged and
\* the workflow is left.
RECURSIVE workflowNodes(_, _, _)
workflowNodes(wfs, fail, acc) ==
    IF wfs = << >> THEN acc
    ELSE LET wf == Head(wfs)
             req == GetAllRequest("source", "workflow_job_templates/workflow_nodes", wf.id)
             ns == SeqAt(source.nodes, wf.id)
         IN  workflowNodes(Tail(wfs), fail,
                IF fail = <<"nodes", wf.id>>
                THEN Acc(acc.d, Append(acc.reqs, req),
                         Append(acc.ls, Line("WARNING: failed to get nodes", wf.name, 0)))
                ELSE surveyOf("workflow_job_templates", wf, fail,
                        Acc([acc.d EXCEPT !.WorkflowNodes = Put(@, wf.id, ns)],
                            Append(acc.reqs, req),
                            Append(acc.ls, Line("Workflow", wf.name, Len(ns))))))

ExportWorkflowNodes ==
    /\ xpc = "workflow_nodes"
    /\ \E fail \in Fails({"nodes", "survey"}, IDsOf(data.WorkflowJTs)) :
        LET a == workflowNodes(data.WorkflowJTs, fail, Acc(data, << >>, << >>)) IN
        /\ PreviewStep(a.reqs, a.d, Spent(fail))
        /\ Log(a.ls)
    /\ PreviewFrame

\* 13. Schedules: those whose unified job template's name is the name of an
\* exported job template or workflow job template.
NamesOf(rs) == {rs[n].name : n \in DOMAIN rs}

exportedJTs(d) == NamesOf(d.JobTemplates) \cup NamesOf(d.WorkflowJTs)

keptSchedulesAnyParent(got, d) == SelectSeq(got, LAMBDA sched : sched.parent # "")

keptSchedules(got, d) ==
    SelectSeq(got, LAMBDA sched : ~(sched.parent = "" \/ sched.parent \notin exportedJTs(d)))

ExportSchedules ==
    /\ xpc = "schedules"
    /\ \E ok \in ReadOutcomes :
        LET kept == keptSchedules(source.schedules, data)
            reqs == << GetAllRequest("source", "schedules", 0) >>
        IN  IF ok
            THEN /\ PreviewStep(reqs, [data EXCEPT !.Schedules = kept], 0)
                 /\ Log(<< Line("Exporting", "schedules", 0),
                           Line("schedules", "", Len(kept)) >>)
            ELSE /\ PreviewError(reqs, "schedules")
                 /\ Log(<< Line("Exporting", "schedules", 0) >>)
    /\ PreviewFrame

\* 14. Org-user and team-user associations: the usernames other than the
\* empty one and admin; a failed read leaves the organization or team out.
memberNames(us) == SelectSeq(us, LAMBDA u : u # "" /\ u # "admin")

RECURSIVE userAssociations(_, _, _, _)
userAssociations(owners, kind, fail, acc) ==
    IF owners = << >> THEN acc
    ELSE LET o == Head(owners)
             req == GetAllRequest("source", kind \o "/users", o.id)
             field == IF kind = "organizations" THEN "OrgUsers" ELSE "TeamUsers"
             us == memberNames(SeqAt(IF kind = "organizations" THEN source.orgUsers
                                     ELSE source.teamUsers, o.id))
         IN  userAssociations(Tail(owners), kind, fail,
                IF fail = <<kind, o.id>> \/ us = << >>
                THEN Acc(acc.d, Append(acc.reqs, req), acc.ls)
                ELSE Acc([acc.d EXCEPT ![field] = Put(@, o.id, us)],
                         Append(acc.reqs, req), acc.ls))

ExportUserAssociations ==
    /\ xpc = "user_associations"
    /\ \E fail \in Fails({"organizations"}, IDsOf(data.Organizations))
                     \cup Fails({"teams"}, IDsOf(data.Teams)) :
        LET a == userAssociations(data.Organizations, "organizations", fail,
                                  Acc(data, << >>, << >>))
            b == userAssociations(data.Teams, "teams", fail, a)
        IN  /\ PreviewStep(b.reqs, b.d, Spent(fail))
            /\ Log(<< Line("Exporting user associations...", "", 0) >> \o b.ls)
    /\ PreviewFrame

\* preflightCheck on exported data: one lookup and one MigrationResource per
\* item, type by type in previewOrder; `bad` holds the lookups (type, index)
\* that end with an error.
preflightOfNewItems(d, bad) ==
    [rt \in {previewOrder[t] : t \in DOMAIN previewOrder} |->
        LET items == SelectSeq(dataForTypeIn(d, rt), LAMBDA r : FindByName(rt, r.name) = 0) IN
        [i \in DOMAIN items |-> classify(rt, items[i], <<rt, i>> \in bad)]]

preflightCheckOn(d, bad) ==
    [rt \in {previewOrder[t] : t \in DOMAIN previewOrder} |->
        LET items == dataForTypeIn(d, rt) IN
        [i \in DOMAIN items |-> classify(rt, items[i], <<rt, i>> \in bad)]]

\* The lookups of preflightCheck, in order.
RECURSIVE lookupRequests(_, _)
lookupRequests(d, t) ==
    IF t > Len(previewOrder) THEN << >>
    ELSE LET rt == previewOrder[t]
             items == dataForTypeIn(d, rt)
         IN  [i \in DOMAIN items |-> GetRequest("destination", rt, 0)]
               \o lookupRequests(d, t + 1)

\* The lookups of a preflight over `d`.
LookupsOf(d) ==
    UNION { {<<previewOrder[t], i>> : i \in DOMAIN dataForTypeIn(d, previewOrder[t])} :
            t \in DOMAIN previewOrder }

PreflightAll ==
    /\ xpc = "preflight"
    /\ \E bad \in {{}} \cup (IF readsLeft > 0 THEN {{l} : l \in LookupsOf(data)} ELSE {}) :
        /\ xlist' = preflightCheckOn(data, bad)
        /\ requests' = requests \o lookupRequests(data, 1)
        /\ readsLeft' = readsLeft - Cardinality(bad)
    /\ xpc' = stepAfter(xpc)
    /\ Log(<< Line("=== Checking destination ===", "", 0) >>)
    /\ UNCHANGED <<data, xerr>>
    /\ PreviewFrame

\* The summary: the counts of the entries to create and to skip.
RECURSIVE countAction(_, _, _)
countAction(p, t, action) ==
    IF t > Len(previewOrder) THEN 0
    ELSE Len(SelectSeq(p[previewOrder[t]], LAMBDA mr : mr.action = action))
           + countAction(p, t + 1, action)

PreviewSummary ==
    /\ xpc = "summary"
    /\ Log(<< Line("Preview complete: to create", "", countAction(xlist, 1, "create")) >>)
    /\ xpc' = stepAfter(xpc)
    /\ UNCHANGED <<data, xlist, requests, readsLeft, xerr>>
    /\ PreviewFrame

\* A preview job at the start of Preview, with no other job of the server.
InitPreview ==
    /\ JobCreated /\ HandlersIdle /\ StoreEmpty
    /\ \E rows \in PreviewDests : ImportIdleOn(rows)
    /\ scn = [dstType |-> "awx", exclude |-> {}, via |-> "Run", src |-> "base"]
    /\ ClientUnused /\ VersionsUnused /\ LibUnused
    /\ source \in Sources
    /\ data = << >>
    /\ xpc = "source_ping"
    /\ xlist = << >>
    /\ requests = << >>
    /\ readsLeft = MaxReadFailures
    /\ xerr = ""

NextPreview ==
    \/ CheckSource
    \/ CheckDestination
    \/ ExportFiltered
    \/ ExportCredentialTypes
    \/ ExportInventoryContents
    \/ ExportJTSurveys
    \/ ExportWorkflowNodes
    \/ ExportSchedules
    \/ ExportUserAssociations
    \/ PreflightAll
    \/ PreviewSummary

SpecPreview == InitPreview /\ [][NextPreview]_vars

\* ------------------------------------------------------------ Client.GetAll

\* A URL is the sequence of its pieces; c.baseURL, and the path of page k of
\* the endpoint, which starts with "/".
baseURL == << "https://source" >>
PagePath(k) == << "/", "api/v2/hosts/?page=", k >>

\* The value of a page's "next": null, or a string: the empty one, the path
\* of the next page (a relative URL) or its full URL.
NextLink(kind, k) ==
    CASE kind = "null" -> [null |-> TRUE, url |-> << >>]
      [] kind = "empty" -> [null |-> FALSE, url |-> << >>]
      [] kind = "relative" -> [null |-> FALSE, url |-> PagePath(k + 1)]
      [] kind = "absolute" -> [null |-> FALSE, url |-> baseURL \o PagePath(k + 1)]

\* The results of page k: `len` resources that no other page holds.
PageResults(k, len) == [i \in 1..len |-> <<k, i>>]

\* The endpoints GetAll meets: 1 to MaxPages pages, each with up to
\* MaxPageLen results and an answer of 2xx or not; every page but the last
\* links to the next one.
PageChains ==
    UNION { { [k \in 1..n |->
                 [results |-> PageResults(k, f[k].len), ok |-> f[k].ok,
                  next |-> NextLink(f[k].link, k)]] :
              f \in { g \in [1..n -> [len : 0..MaxPageLen, ok : BOOLEAN,
                                      link : {"null", "empty", "relative", "absolute"}]] :
                        \A k \in 1..n : g[k].link \in {"null", "empty"} <=> k = n } } :
            n \in 1..MaxPages }

\* The page the server has at a URL, 0 for a URL it does not serve.
PageAt(url) ==
    LET ks == {k \in DOMAIN pages : url = baseURL \o PagePath(k)} IN
    IF ks = {} THEN 0 ELSE CHOOSE k \in ks : TRUE

\* currentURL after a page: its next link, made absolute when it starts
\* with "/"; the empty string for null and for the empty string.
nextURLVerbatim(next) ==
    IF ~next.null /\ next.url # << >> THEN next.url ELSE << >>

nextURL(next) ==
    IF ~next.null /\ next.url # << >>
    THEN IF Len(next.url) > 0 /\ next.url[1] = "/" THEN baseURL \o next.url ELSE next.url
    ELSE << >>

\* What GetAll leaves alone.
ClientFrame ==
    UNCHANGED <<jobVars, workerVars, cancelVars, streamVars, storeVars, importVars,
                exportVars, versionVars, libVars, pages>>

\* One turn of GetAll's loop: the GET of currentURL; an error or a non-2xx
\* answer ends GetAll with nil and the error, a page is appended to all.
GetAllPage ==
    /\ gres = "" /\ currentURL # << >>
    /\ LET k == PageAt(currentURL) IN
       IF k = 0 \/ ~pages[k].ok
       THEN /\ gres' = "error"
            /\ all' = << >>
            /\ UNCHANGED <<currentURL, fetched>>
       ELSE /\ all' = all \o pages[k].results
            /\ currentURL' = nextURL(pages[k].next)
            /\ fetched' = Append(fetched, k)
            /\ UNCHANGED gres
    /\ ClientFrame

\* currentURL is empty: return all, nil.
GetAllReturn ==
    /\ gres = "" /\ currentURL = << >>
    /\ gres' = "ok"
    /\ UNCHANGED <<currentURL, all, fetched>>
    /\ ClientFrame

\* GetAll(path) of an endpoint, at its first line.
InitGetAll ==
    /\ JobCreated /\ HandlersIdle /\ StoreEmpty /\ ImportUnused
    /\ ExportUnused /\ VersionsUnused /\ LibUnused
    /\ pages \in PageChains
    /\ currentURL = baseURL \o PagePath(1)
    /\ all = << >>
    /\ gres = ""
    /\ fetched = << >>

NextGetAll == GetAllPage \/ GetAllReturn

SpecGetAll == InitGetAll /\ [][NextGetAll]_vars

\* ------------------------------------------------------- CompareVersions

\* A version string is the sequence of its dot-separated parts, as
\* strings.Split gives them; the empty string has one part, the empty one.
PartTexts == {"", "0", "1", "4", "23"}
Versions == UNION {[1..n -> PartTexts] : n \in 1..MaxParts}
EmptyVersion == << "" >>

\* strconv.Atoi: the number, or an error (-1 here) for a part that is none.
Atoi(p) ==
    CASE p = "0" -> 0
      [] p = "1" -> 1
      [] p = "4" -> 4
      [] p = "23" -> 23
      [] OTHER -> -1

\* parseVersionParts: the numbers of the parts up to the first part that is
\* no number.
RECURSIVE parseVersionParts(_)
parseVersionParts(v) ==
    IF v = << >> \/ Atoi(Head(v)) = -1 THEN << >>
    ELSE << Atoi(Head(v)) >> \o parseVersionParts(Tail(v))

\* CompareVersions: -1, 0 or 1 at the first index where the parts differ, a
\* missing part being 0.
RECURSIVE compareFrom(_, _, _, _)
compareFrom(aParts, bParts, i, maxLen) ==
    IF i > maxLen THEN 0
    ELSE LET av == IF i <= Len(aParts) THEN aParts[i] ELSE 0
             bv == IF i <= Len(bParts) THEN bParts[i] ELSE 0
         IN  IF av < bv THEN -1
             ELSE IF av > bv THEN 1
             ELSE compareFrom(aParts, bParts, i + 1, maxLen)

CompareVersionsShortFirst(a, b) ==
    LET aParts == parseVersionParts(a)
        bParts == parseVersionParts(b)
        c == compareFrom(aParts, bParts, 1, Min({Len(aParts), Len(bParts)}))
    IN  IF c # 0 THEN c
        ELSE IF Len(aParts) < Len(bParts) THEN -1
        ELSE IF Len(aParts) > Len(bParts) THEN 1 ELSE 0

CompareVersions(a, b) ==
    LET aParts == parseVersionParts(a)
        bParts == parseVersionParts(b)
    IN  compareFrom(aParts, bParts, 1, Max({Len(aParts), Len(bParts)}))

VersionAtLeast(version, min) ==
    IF version = EmptyVersion \/ min = EmptyVersion THEN TRUE
    ELSE CompareVersions(version, min) >= 0

\* A call of each function on the same two strings.
CompareCall ==
    /\ vres = << >>
    /\ vres' = [cmp |-> CompareVersions(va, vb), atLeast |-> VersionAtLeast(va, vb)]
    /\ UNCHANGED <<jobVars, workerVars, cancelVars, streamVars, storeVars, importVars,
                   exportVars, clientVars, libVars, va, vb>>

InitVersions ==
    /\ JobCreated /\ HandlersIdle /\ StoreEmpty /\ ImportUnused
    /\ ExportUnused /\ ClientUnused /\ LibUnused
    /\ va \in Versions
    /\ vb \in Versions
    /\ vres = << >>

NextVersions == CompareCall

SpecVersions == InitVersions /\ [][NextVersions]_vars

\* ------------------------------------------------------------ rewritePaths

\* A path is a string, a sequence of characters; two characters are enough
\* for a prefix to occur at the start, further in, twice or not at all.
Chars == {"/", "v"}
StringsUpTo(n) == UNION {[1..k -> Chars] : k \in 0..n}
SkipKeys == {"Default"}

\* A registry entry: APIPath is a string, Skip the address of a map in `heap`
\* (0 is the nil map).
Entry(path, skip) == [APIPath |-> path, Skip |-> skip]

\* strings.Index(s[from-1:], old): the first position from `from` on at which
\* old occurs in s, 0 when there is none (an empty old occurs at once).
RECURSIVE IndexFrom(_, _, _)
IndexFrom(s, old, from) ==
    IF from + Len(old) - 1 > Len(s) THEN 0
    ELSE IF SubSeq(s, from, from + Len(old) - 1) = old THEN from
    ELSE IndexFrom(s, old, from + 1)

\* strings.Replace(s, old, new, 1): the first occurrence only.
Replace(s, old, new) ==
    LET k == IndexFrom(s, old, 1) IN
    IF k = 0 THEN s
    ELSE SubSeq(s, 1, k - 1) \o new \o SubSeq(s, k + Len(old), Len(s))

\* make(map[string]bool): the address of a new map.
newMap(h) == Max({0} \cup DOMAIN h) + 1

\* The loop of rewritePaths without the copy of the Skip map.
RECURSIVE rewriteShared(_, _, _, _, _, _)
rewriteShared(h, resources, i, oldPrefix, newPrefix, acc) ==
    IF i > Len(resources) THEN [result |-> acc, heap |-> h]
    ELSE LET r == resources[i]
             path == Replace(r.APIPath, oldPrefix, newPrefix)
         IN rewriteShared(h, resources, i + 1, oldPrefix, newPrefix,
                          Append(acc, Entry(path, r.Skip)))

\* rewritePaths' loop from entry i on: the entry is copied, its path replaced,
\* and a Skip map that is not nil is copied into a new map.
RECURSIVE rewriteFrom(_, _, _, _, _, _)
rewriteFrom(h, resources, i, oldPrefix, newPrefix, acc) ==
    IF i > Len(resources) THEN [result |-> acc, heap |-> h]
    ELSE LET r == resources[i]
             path == Replace(r.APIPath, oldPrefix, newPrefix)
             skip == newMap(h)
         IN IF r.Skip # 0
            THEN rewriteFrom(Put(h, skip, h[r.Skip]), resources, i + 1,
                             oldPrefix, newPrefix, Append(acc, Entry(path, skip)))
            ELSE rewriteFrom(h, resources, i + 1, oldPrefix, newPrefix,
                             Append(acc, Entry(path, r.Skip)))

rewritePaths(h, resources, oldPrefix, newPrefix) ==
    rewriteFrom(h, resources, 1, oldPrefix, newPrefix, << >>)

RegistryFrame ==
    UNCHANGED <<jobVars, workerVars, cancelVars, streamVars, storeVars, importVars,
                exportVars, clientVars, versionVars, listVars, deleteVars, connVars>>

\* A caller rewrites the registry: NewPlatform with the prefix it detected, or
\* any other caller with any two prefixes.
RewriteCall ==
    /\ rewritten = << >> /\ rargs = << >>
    /\ \E oldPrefix \in StringsUpTo(MaxPrefixLen) \ {<< >>},
          newPrefix \in StringsUpTo(MaxPrefixLen) :
          LET out == rewritePaths(heap, registry, oldPrefix, newPrefix) IN
          /\ rewritten' = out.result
          /\ heap' = out.heap
          /\ rargs' = <<oldPrefix, newPrefix>>
    /\ UNCHANGED registry
    /\ RegistryFrame

\* The caller changes the skip set of an entry it was returned: it sets a key
\* or deletes one.
MutateSkip ==
    /\ rewritten # << >>
    /\ \E i \in DOMAIN rewritten, k \in SkipKeys \cup {"x"} :
          /\ rewritten[i].Skip # 0
          /\ \/ heap' = [heap EXCEPT ![rewritten[i].Skip] = @ \cup {k}]
             \/ heap' = [heap EXCEPT ![rewritten[i].Skip] = @ \ {k}]
          /\ heap' # heap
    /\ UNCHANGED <<registry, rewritten, rargs>>
    /\ RegistryFrame

\* Registries of NumEntries entries: any paths, each Skip nil or a map of its
\* own holding any of the keys.
InitRegistry ==
    /\ JobCreated /\ HandlersIdle /\ StoreEmpty /\ ImportUnused
    /\ ExportUnused /\ ClientUnused /\ VersionsUnused
    /\ ListUnused /\ DeleteUnused /\ ConnsUnused
    /\ \E paths \in [1..NumEntries -> StringsUpTo(MaxPathLen)],
          mapped \in SUBSET (1..NumEntries),
          maps \in [1..NumEntries -> SUBSET SkipKeys] :
          /\ registry = [i \in 1..NumEntries |->
                            Entry(paths[i], IF i \in mapped THEN i ELSE 0)]
          /\ heap = [i \in mapped |-> maps[i]]
    /\ rewritten = << >>
    /\ rargs = << >>

NextRegistry ==
    \/ RewriteCall
    \/ MutateSkip

SpecRegistry == InitRegistry /\ [][NextRegistry]_vars

\* ------------------------------------------------------------ JobStore.List

\* time.Time.Before, and time.Time.After as List's comparison uses it.
Before(t, u) == t < u
After(t, u) == t > u

\* The orders in which a range over a map with the keys S may visit them.
RangeOrders(S) ==
    {o \in [1..Cardinality(S) -> S] : \A a, b \in DOMAIN o : o[a] = o[b] => a = b}

ListFrame ==
    UNCHANGED <<workerVars, cancelVars, streamVars, storeVars, importVars,
                exportVars, clientVars, versionVars, registryVars, deleteVars, connVars>>

\* JobStore.Create: a job under a new ID, started now.
StoreCreate ==
    /\ lpc = << >>
    /\ Cardinality(DOMAIN jobs) < MaxJobs
    /\ jobs' = Put(jobs, Cardinality(DOMAIN jobs) + 1, now)
    /\ UNCHANGED <<result, lpc, jobVars>>
    /\ ListFrame

\* List takes the read lock and collects the jobs in the map's order.
ListCollect ==
    /\ lpc = << >>
    /\ \E o \in RangeOrders(DOMAIN jobs) : result' = o
    /\ lpc' = [at |-> "sort", i |-> 1, j |-> 2]
    /\ UNCHANGED <<jobs, jobVars>>
    /\ ListFrame

\* One round of the inner loop: the later of result[i] and result[j] goes to i.
ListCompare ==
    /\ lpc # << >> /\ lpc.at = "sort"
    /\ lpc.i <= Len(result) /\ lpc.j <= Len(result)
    /\ result' = IF After(jobs[result[lpc.j]], jobs[result[lpc.i]])
                 THEN [result EXCEPT ![lpc.i] = result[lpc.j], ![lpc.j] = result[lpc.i]]
                 ELSE result
    /\ lpc' = [lpc EXCEPT !.j = @ + 1]
    /\ UNCHANGED <<jobs, jobVars>>
    /\ ListFrame

\* The inner loop is over: the outer loop goes to the next i.
ListNextI ==
    /\ lpc # << >> /\ lpc.at = "sort"
    /\ lpc.i <= Len(result) /\ lpc.j > Len(result)
    /\ lpc' = [lpc EXCEPT !.i = @ + 1, !.j = lpc.i + 2]
    /\ UNCHANGED <<jobs, result, jobVars>>
    /\ ListFrame

\* The outer loop is over: List returns result and gives up the lock.
ListReturn ==
    /\ lpc # << >> /\ lpc.at = "sort"
    /\ lpc.i > Len(result)
    /\ lpc' = [lpc EXCEPT !.at = "returned"]
    /\ UNCHANGED <<jobs, result, jobVars>>
    /\ ListFrame

InitList ==
    /\ JobCreated /\ HandlersIdle /\ StoreEmpty /\ ImportUnused
    /\ ExportUnused /\ ClientUnused /\ VersionsUnused
    /\ RegistryUnused /\ DeleteUnused /\ ConnsUnused
    /\ jobs = << >>
    /\ result = << >>
    /\ lpc = << >>

NextList ==
    \/ ClockTick
    \/ StoreCreate
    \/ ListCollect
    \/ ListCompare
    \/ ListNextI
    \/ ListReturn

SpecList == InitList /\ [][NextList]_vars

\* ------------------------------------------------------------ Client.Delete

\* The paths DELETE requests go to.
DeletePaths == {"organizations/1/", "organizations/2/"}

\* The status codes with which a control plane refuses a DELETE.
RefusalCodes == {401, 403, 409, 500}

\* The switch of Delete with 404 left to the default case.
deleteErrorStrict(code) ==
    IF code \in {204, 202} THEN "" ELSE "HTTP"

\* The switch of Delete on the response's StatusCode: the error it returns,
\* "" for nil.
deleteError(code) ==
    IF code \in {204, 202} THEN ""
    ELSE IF code = 404 THEN ""
    ELSE "HTTP"

DeleteFrame ==
    UNCHANGED <<jobVars, workerVars, cancelVars, streamVars, storeVars, importVars,
                exportVars, clientVars, versionVars, registryVars, listVars, connVars>>

\* Delete returns after the response with this status code.
DeleteAnswered(path, code) ==
    deletes' = Append(deletes, [path |-> path, status |-> code,
                                err |-> deleteError(code)])

\* Delete(path) while the control plane holds the object: it deletes it and
\* answers 204, or takes the request and answers 202.
DeleteExisting ==
    /\ Len(deletes) < MaxDeletes
    /\ \E path \in objects, code \in {204, 202} :
          /\ DeleteAnswered(path, code)
          /\ objects' = objects \ {path}
    /\ UNCHANGED deleteFails
    /\ DeleteFrame

\* Delete(path) for an object the control plane does not hold: 404.
DeleteMissing ==
    /\ Len(deletes) < MaxDeletes
    /\ \E path \in DeletePaths \ objects : DeleteAnswered(path, 404)
    /\ UNCHANGED <<objects, deleteFails>>
    /\ DeleteFrame

\* The control plane refuses the request.
DeleteRefused ==
    /\ Len(deletes) < MaxDeletes
    /\ deleteFails > 0
    /\ \E path \in DeletePaths, code \in RefusalCodes : DeleteAnswered(path, code)
    /\ deleteFails' = deleteFails - 1
    /\ UNCHANGED objects
    /\ DeleteFrame

\* httpClient.Do fails: no response, Delete returns the transport's error.
DeleteUnsent ==
    /\ Len(deletes) < MaxDeletes
    /\ deleteFails > 0
    /\ \E path \in DeletePaths :
          deletes' = Append(deletes, [path |-> path, status |-> 0, err |-> "transport"])
    /\ deleteFails' = deleteFails - 1
    /\ UNCHANGED objects
    /\ DeleteFrame

InitDelete ==
    /\ JobCreated /\ HandlersIdle /\ StoreEmpty /\ ImportUnused
    /\ ExportUnused /\ ClientUnused /\ VersionsUnused
    /\ RegistryUnused /\ ListUnused /\ ConnsUnused
    /\ objects \in SUBSET DeletePaths
    /\ deletes = << >>
    /\ deleteFails = MaxDeleteFailures

NextDelete ==
    \/ DeleteExisting
    \/ DeleteMissing
    \/ DeleteRefused
    \/ DeleteUnsent

SpecDelete == InitDelete /\ [][NextDelete]_vars

\* ---------------------------------------------------------- ConnectionStore

\* The goroutines that call the store: one Create each, and for the connection
\* of each Create one Get and one SetHealth.
Creators == 1..NumCreators
Goroutines == {"create", "get", "health"} \X Creators

HealthStatuses == {"ok", "error"}

\* uuid.New() that returns the same ID every time.
uuidSame(issued) == 1

\* uuid.New(): an ID that no earlier call returned.
uuidNew(issued) == Max({0} \cup issued) + 1

\* The ID Create gave the connection of creator n, 0 before.
IDOf(n) == gpc[<<"create", n>>].id

ConnFrame ==
    UNCHANGED <<jobVars, workerVars, cancelVars, streamVars, storeVars, importVars,
                exportVars, clientVars, versionVars, registryVars, listVars, deleteVars>>

\* s.mu.Lock() and s.mu.RLock(): a writer waits for the lock to be free, a
\* reader for no writer to hold it.
Lock(g) ==
    /\ gpc[g].at = "start"
    /\ mu.w = << >> /\ mu.r = {}
    /\ mu' = [mu EXCEPT !.w = g]
    /\ gpc' = [gpc EXCEPT ![g].at = "locked"]

RLock(g) ==
    /\ gpc[g].at = "start"
    /\ mu.w = << >>
    /\ mu' = [mu EXCEPT !.r = @ \cup {g}]
    /\ gpc' = [gpc EXCEPT ![g].at = "locked"]

CreateLock ==
    /\ \E n \in Creators : Lock(<<"create", n>>)
    /\ UNCHANGED <<conns, gets>>
    /\ ConnFrame

\* Create under the lock: the connection gets its ID and the two statuses and
\* goes into the map; the deferred Unlock runs.
CreateStore ==
    /\ \E n \in Creators :
          LET g == <<"create", n>>
              id == uuidNew(DOMAIN conns)
          IN /\ gpc[g].at = "locked"
             /\ conns' = Put(conns, id, [PingStatus |-> "unknown", AuthStatus |-> "unknown",
                                         LastChecked |-> 0])
             /\ gpc' = [gpc EXCEPT ![g] = [at |-> "done", id |-> id]]
             /\ mu' = [mu EXCEPT !.w = << >>]
    /\ UNCHANGED gets
    /\ ConnFrame

\* Get(id) for the ID of a connection that was created.
GetRLock ==
    /\ \E n \in Creators : IDOf(n) # 0 /\ RLock(<<"get", n>>)
    /\ UNCHANGED <<conns, gets>>
    /\ ConnFrame

\* Get under the read lock: s.conns[id], nil (0) for a missing key.
GetReturn ==
    /\ \E n \in Creators :
          LET g == <<"get", n>> IN
          /\ gpc[g].at = "locked"
          /\ gets' = Put(gets, n, IF IDOf(n) \in DOMAIN conns THEN IDOf(n) ELSE 0)
          /\ gpc' = [gpc EXCEPT ![g].at = "done"]
          /\ mu' = [mu EXCEPT !.r = @ \ {g}]
    /\ UNCHANGED conns
    /\ ConnFrame

\* SetHealth(id, ...) for the ID of a connection that was created.
HealthLock ==
    /\ \E n \in Creators : IDOf(n) # 0 /\ Lock(<<"health", n>>)
    /\ UNCHANGED <<conns, gets>>
    /\ ConnFrame

\* SetHealth under the lock: nothing for a missing ID, else the statuses and
\* the time of the check are set.
HealthSet ==
    /\ \E n \in Creators, pingStatus \in HealthStatuses, authStatus \in HealthStatuses :
          LET g == <<"health", n>> IN
          /\ gpc[g].at = "locked"
          /\ conns' = IF IDOf(n) \notin DOMAIN conns THEN conns
                      ELSE [conns EXCEPT ![IDOf(n)] =
                               [PingStatus |-> pingStatus, AuthStatus |-> authStatus,
                                LastChecked |-> now]]
          /\ gpc' = [gpc EXCEPT ![g].at = "done"]
          /\ mu' = [mu EXCEPT !.w = << >>]
    /\ UNCHANGED gets
    /\ ConnFrame

InitConns ==
    /\ JobCreated /\ HandlersIdle /\ StoreEmpty /\ ImportUnused
    /\ ExportUnused /\ ClientUnused /\ VersionsUnused
    /\ RegistryUnused /\ ListUnused /\ DeleteUnused
    /\ conns = << >>
    /\ mu = [w |-> << >>, r |-> {}]
    /\ gpc = [g \in Goroutines |-> [at |-> "start", id |-> 0]]
    /\ gets = << >>

NextConns ==
    \/ CreateLock
    \/ CreateStore
    \/ GetRLock
    \/ GetReturn
    \/ HealthLock
    \/ HealthSet

SpecConns == InitConns /\ [][NextConns]_vars

\* ------------------------------------------------------------------ claims

\* The POSTs of the current run.
RunPosts == SelectSeq(posts, LAMBDA p : p.run = run)

\* C1: once the run job's cancellation flag is set, importAll sends no
\* further POST to the destination.
C1_NoPostAfterCancel == [][cancelled => posts' = posts]_vars

\* The log holds a line of this kind.
Logged(kind) == \E n \in DOMAIN output : output[n].kind = kind

\* C2: a run whose importAll returned the cancellation error has logged
\* "Migration cancelled by user", and once its goroutine has called Fail or
\* Complete the job's status is cancelled, and stays so.
C2_CancelledRunEndsCancelled ==
    (werr = "context canceled" /\ wpc \in {"delete", "done"})
        => (Logged("Migration cancelled by user") /\ status = "cancelled")

\* The second round, after a first one without exclusion, refused POST or
\* cancel request.
SecondOfTwoCleanRuns ==
    /\ run = 2
    /\ excludeArg = {}
    /\ failsLeft = MaxPostFailures
    /\ cancelsLeft = MaxCancels

\* C3: a second preview + run with the same source and destination is
\* idempotent: the second preflight classifies every item skip_exists, and
\* the second run sends no POST but association attempts ({"id": n} bodies).
C3_SecondRunIdempotent ==
    SecondOfTwoCleanRuns =>
        /\ \A rt \in DOMAIN preview : \A k \in DOMAIN preview[rt] :
              preview[rt][k].action = "skip_exists"
        /\ \A n \in DOMAIN RunPosts : RunPosts[n].id # 0

\* The destination's object `d` is one the preview classified skip_exists
\* and the user did not exclude.
Adopted(d) ==
    \E rt \in DOMAIN preview : \E k \in DOMAIN preview[rt] :
        /\ preview[rt][k].action = "skip_exists"
        /\ preview[rt][k].destID = d
        /\ ~isExcluded(rt, preview[rt][k].name)

\* C4: the run sends no write that alters an adopted (skip_exists) object:
\* no POST of a survey spec or of a workflow node under its ID.
C4_AdoptedLeftUnchanged ==
    \A n \in DOMAIN RunPosts :
        RunPosts[n].path \in {"job_templates/survey_spec",
                              "workflow_job_templates/survey_spec",
                              "workflow_job_templates/workflow_nodes"}
            => ~Adopted(RunPosts[n].parent)

\* The run sent a POST of this name to this collection of this parent.
Posted(path, parent, name) ==
    \E n \in DOMAIN RunPosts :
        /\ RunPosts[n].path = path
        /\ RunPosts[n].parent = parent
        /\ RunPosts[n].name = name

\* C5: when importAll has returned nil, every exported, non-excluded schedule
\* whose parent is a workflow job template the run created or adopted was
\* POSTed under /workflow_job_templates/{id}/schedules/, and one whose
\* parent is a job template of the run under /job_templates/{id}/schedules/.
C5_ScheduleUnderItsParent ==
    (ipc.ph = "returned" /\ werr = "") =>
        \A k \in DOMAIN Data.Schedules :
            LET sched == Data.Schedules[k]
                wfID == Lookup(ids.wfjts, sched.parent)
                jtID == Lookup(ids.jts, sched.parent)
            IN  ~isExcluded("schedules", sched.name) =>
                  /\ wfID # 0 =>
                        Posted("workflow_job_templates/schedules", wfID, sched.name)
                  /\ (jtID # 0 /\ wfID = 0) =>
                        Posted("job_templates/schedules", jtID, sched.name)

IsPrefix(a, b) == Len(a) <= Len(b) /\ SubSeq(b, 1, Len(a)) = a

\* C6: a job's terminal state is absorbing: once the status is terminal, no
\* call changes status, error or finishedAt (the first Complete / Fail wins),
\* and a terminal status implies that finishedAt is set.
C6_TerminalAbsorbing ==
    /\ [][Terminal(status) =>
            /\ status' = status
            /\ jobError' = jobError
            /\ finishedAt' = finishedAt]_vars
    /\ [](Terminal(status) => finishedAt # 0)

\* C7: a stream that has sent its close frame has sent every line of the
\* job's log, once each and in append order, and the job is terminal.
C7_CloseAfterAllLines ==
    \A s \in Streams :
        spc[s] = "closed" => Terminal(status) /\ sent[s] = output

C9_LogAppendOnly ==
    /\ [](output = appendCalls)
    /\ [][IsPrefix(output, output')]_vars
    /\ [][apiRead' # apiRead =>
            /\ output' = output
            /\ Len(apiRead'.lines) = (IF Len(output) > apiRead'.off
                                       THEN Len(output) - apiRead'.off ELSE 0)
            /\ \A i \in 1..Len(apiRead'.lines) :
                    apiRead'.lines[i] = output[apiRead'.off + i]]_vars

C9_Witness ==
    /\ Len(output) = 3
    /\ apiRead.off = 1
    /\ Len(apiRead.lines) = 1
    /\ output[1] = output[3]

\* The run jobs that were started from preview job p's entry.
RunsOf(p) == {r \in RunRequests : rreq[r].preview = p /\ rreq[r].status # ""}

\* C10: each Preview Store entry is written once by its preview job, is
\* consumed by at most one run job, and is gone once that run has ended and
\* cleaned up, so that a later run request for it starts no import.
C10_EntryWrittenOnceReadOnce ==
    \A p \in PreviewIDs :
        /\ storeCalls[p] <= 1
        /\ (p \in previews => pjob[p] \in {"stored", "completed"})
        /\ Cardinality(RunsOf(p)) <= 1
        /\ ((\E r \in RunsOf(p) : rreq[r].state = "cleaned") => p \notin previews)

\* The payload fields that name another entity.
ReferenceFields == {"organization", "credential_type", "credential", "project",
                    "inventory", "unified_job_template"}

\* C11: no POST payload carries a reference field with the value 0.
C11_NoZeroReference ==
    \A n \in DOMAIN posts :
        \A f \in DOMAIN posts[n].refs \cap ReferenceFields : posts[n].refs[f] # 0

\* The destination holds an object of this ID.
IsDestID(d) == \E r \in dest : r.id = d

\* C12: every entity ID a POST carries (in its path, in an association's
\* body, in a reference field) is the ID of an object of the destination.
C12_OnlyDestinationIDs ==
    \A n \in DOMAIN posts :
        LET p == posts[n] IN
        /\ p.parent # 0 => IsDestID(p.parent)
        /\ p.id # 0 => IsDestID(p.id)
        /\ \A f \in DOMAIN p.refs \cap ReferenceFields : IsDestID(p.refs[f])

\* The log holds a line of this kind about this name.
LoggedAbout(kind, name) ==
    \E n \in DOMAIN output : output[n].kind = kind /\ output[n].name = name

\* C13: for every type and name of the exclusion set supplied with the run
\* request, the run sends no POST that creates the item, and once importAll
\* has returned nil the log holds its EXCLUDED line.
C13_ExcludedNeverCreated ==
    scn.via = "Run" =>
        \A e \in scn.exclude :
            /\ ~\E n \in DOMAIN RunPosts :
                  /\ RunPosts[n].path = e[1]
                  /\ RunPosts[n].name = e[2]
            /\ (ipc.ph = "returned" /\ werr = "") => LoggedAbout("EXCLUDED", e[2])

\* The exported item of this name in a list of the export.
ItemNamed(items, name) == items[CHOOSE k \in DOMAIN items : items[k].name = name]

\* C14: an item whose organization, project, credential type or parent has
\* no idMap entry is not POSTed: every create POST of the run is for an item
\* whose named entities the idMap holds.
C14_UnresolvedNeverPosted ==
    \A n \in DOMAIN RunPosts :
        LET p == RunPosts[n] IN
        /\ p.path \in {"teams", "credentials", "projects", "inventories",
                       "workflow_job_templates"}
              => Lookup(ids.orgs, ItemNamed(itemsOf(p.path), p.name).org) # 0
        /\ p.path = "credentials"
              => LET cred == ItemNamed(Data.Credentials, p.name) IN
                 \/ Lookup(ids.credTypeByID, cred.credential_type) # 0
                 \/ Lookup(ids.credTypes, cred.ctName) # 0
        /\ p.path = "job_templates"
              => Lookup(ids.projects, ItemNamed(Data.JobTemplates, p.name).project) # 0
        /\ p.path \in {"job_templates/schedules", "workflow_job_templates/schedules"}
              => LET parent == ItemNamed(Data.Schedules, p.name).parent IN
                 Lookup(ids.jts, parent) # 0 \/ Lookup(ids.wfjts, parent) # 0

\* importAll is not between the first node and the wiring of workflow k.
NotInside(k) == ~(ipc.ph = "workflow_nodes" /\ ipc.i = k /\ ipc.j >= 1)

EdgeKinds == {"success_nodes", "failure_nodes", "always_nodes"}

\* The workflow of the destination a node of the destination belongs to.
WorkflowOfNode(d) == (CHOOSE r \in dest : r.type = "workflow_nodes" /\ r.id = d).parent

\* C15: for every source edge (u, kind, v) whose two nodes the run created,
\* the run POSTs {id: dest(v)} to /workflow_job_template_nodes/{dest(u)}/{kind}/,
\* and every edge POST of a workflow follows all node POSTs of that workflow.
C15_EdgesAfterNodes ==
    /\ wpc # "previewed" =>
         \A k \in DOMAIN Data.WorkflowJTs :
           NotInside(k) =>
             LET nodes == SeqAt(Data.WorkflowNodes, Data.WorkflowJTs[k].id) IN
             \A a \in DOMAIN nodes : \A kind \in EdgeKinds :
               \A b \in DOMAIN nodes[a][kind] :
                 LET u == Lookup(ids.nodes, nodes[a].id)
                     v == Lookup(ids.nodes, nodes[a][kind][b])
                 IN  (u # 0 /\ v # 0) =>
                       \E n \in DOMAIN RunPosts :
                          /\ RunPosts[n].path = "workflow_job_template_nodes/" \o kind
                          /\ RunPosts[n].parent = u
                          /\ RunPosts[n].id = v
    /\ \A e \in DOMAIN RunPosts : \A c \in DOMAIN RunPosts :
         (/\ \E kind \in EdgeKinds :
                RunPosts[e].path = "workflow_job_template_nodes/" \o kind
          /\ RunPosts[c].path = "workflow_job_templates/workflow_nodes"
          /\ RunPosts[c].parent = WorkflowOfNode(RunPosts[e].parent))
            => c < e

\* A run that created both workflows' nodes has wired their edges and returned.
C15_Witness ==
    /\ ipc.ph = "returned"
    /\ \E n \in DOMAIN RunPosts :
          RunPosts[n].path = "workflow_job_template_nodes/always_nodes"
    /\ \E n \in DOMAIN RunPosts :
          RunPosts[n].path = "workflow_job_template_nodes/success_nodes"

\* C16: every credential POST has the empty mapping as its inputs.
C16_CredentialInputsEmpty ==
    \A n \in DOMAIN posts :
        posts[n].path = "credentials" => posts[n].refs.inputs = << >>

\* A credential whose source reports inputs has been POSTed.
C16_Witness ==
    \E n \in DOMAIN posts :
        /\ posts[n].path = "credentials"
        /\ posts[n].ok
        /\ ItemNamed(Data.Credentials, posts[n].name).inputs # << >>

\* The FAIL lines of the log, and the create POSTs of the run that got no 2xx.
FailLines == SelectSeq(output, LAMBDA l : l.kind \in {"FAIL", "FAIL node"})
FailedPosts == SelectSeq(RunPosts, LAMBDA p : ~p.ok)

\* The phases whose header importAll logs.
headerPhases == listPhases \cup {"hosts", "groups", "team_users"}

\* C17: a failed create never makes importAll return an error: each one is
\* logged as a FAIL line, importAll returns an error only when cancelled,
\* and a run that was not cancelled goes through every phase to its end.
C17_FailedCreateDoesNotAbort ==
    /\ werr \in {"", "context canceled"}
    /\ wpc \notin {"none", "previewed"} => Len(FailLines) = Len(FailedPosts)
    /\ (ipc.ph = "returned" /\ ~cancelled) =>
          /\ werr = ""
          /\ \A ph \in headerPhases : LoggedAbout("=== Importing", ph)
          /\ Logged("=== Migration complete ===")

\* importAll has returned nil after a create that failed and a later one
\* that succeeded.
C17_Witness ==
    /\ ipc.ph = "returned"
    /\ werr = ""
    /\ \E a, b \in DOMAIN RunPosts :
          a < b /\ ~RunPosts[a].ok /\ RunPosts[b].ok /\ RunPosts[b].id = 0

\* C18: a run whose read of the destination's credential types failed ends
\* failed.
C18_PreloadFailureFailsRun ==
    (~preloadOK /\ wpc \in {"delete", "done"}) => status = "failed"

\* C19: a preflight with a failed lookup stores no preview.
C19_FailedLookupStoresNothing == badLookups # {} => ~Get(run)

\* The objects of the destination a lookup by this natural key returns.
Hits(rt, name) == {r \in dest : r.type = rt /\ r.name = name}

\* C20: every entry of a preview is create or skip_exists; it is skip_exists
\* exactly when its lookup returned an object of the destination, and then
\* its destID is that object's ID and greater than 0.
C20_PreviewEntries ==
    wpc = "previewed" =>
        \A rt \in DOMAIN preview : \A k \in DOMAIN preview[rt] :
            LET m == preview[rt][k]
                found == Hits(rt, m.name) # {} /\ <<rt, k>> \notin badLookups
            IN  /\ m.action \in {"create", "skip_exists"}
                /\ m.action = "skip_exists" <=> found
                /\ m.action = "skip_exists" =>
                      /\ m.destID > 0
                      /\ m.destID \in {r.id : r \in Hits(rt, m.name)}

\* A second preview with adopted items, an item to create and a failed lookup.
C20_Witness ==
    /\ wpc = "previewed"
    /\ badLookups # {}
    /\ \E rt \in DOMAIN preview : \E k \in DOMAIN preview[rt] :
          preview[rt][k].action = "skip_exists"
    /\ \E rt \in DOMAIN preview : \E k \in DOMAIN preview[rt] :
          preview[rt][k].action = "create" /\ Hits(rt, preview[rt][k].name) = {}

\* The ten previewed types.
PreviewTypes == {previewOrder[t] : t \in DOMAIN previewOrder}

\* The preview job has passed the step `st` of Preview without an error.
StepOf(st) == CHOOSE k \in DOMAIN previewSteps : previewSteps[k] = st
Past(st) ==
    \/ xpc = "returned" /\ xerr = ""
    \/ xpc \notin {"none", "returned"} /\ StepOf(xpc) > StepOf(st)

\* C21: for each of the ten previewed types the preview holds exactly one
\* entry per exported item of the type, in export order, with the item's
\* source ID and name; the exported items of a type read with fetchFiltered
\* are the source's items but those with a default name.
C21_OneEntryPerExportedItem ==
    Past("preflight") =>
        \A rt \in PreviewTypes :
            LET items == dataForTypeIn(data, rt) IN
            /\ Len(xlist[rt]) = Len(items)
            /\ \A i \in DOMAIN items :
                  xlist[rt][i].sourceID = items[i].id /\ xlist[rt][i].name = items[i].name
            /\ rt \in filteredTypes =>
                  items = SelectSeq(source[rt], LAMBDA r : r.name \notin skipNames(rt))

\* A preview of the stock source against a destination that holds some of
\* its names has returned.
C21_Witness ==
    /\ xpc = "returned" /\ xerr = ""
    /\ source = StockSource
    /\ \E n \in DOMAIN xlist["organizations"] : xlist["organizations"][n].action = "skip_exists"
    /\ \E n \in DOMAIN xlist["teams"] : xlist["teams"][n].action = "create"

\* C22: a preview job sends GET requests only, and no step of it changes
\* the source or the destination, whether the preview succeeds or fails.
C22_PreviewOnlyReads ==
    /\ [](\A n \in DOMAIN requests : requests[n].method = "GET")
    /\ [][source' = source /\ dest' = dest]_vars

\* A preview has read both control planes and returned.
C22_Witness ==
    /\ xpc = "returned"
    /\ \E n \in DOMAIN requests : requests[n].to = "source" /\ requests[n].path = "schedules"
    /\ \E n \in DOMAIN requests : requests[n].to = "destination" /\ requests[n].path = "teams"

\* The names an exported entity refers to, with the list each one names.
References(r) ==
    { <<"organizations", r.org>>, <<"credential_types", r.ctype>>,
      <<"projects", r.project>>, <<"inventories", r.inventory>> } \ (PreviewTypes \X {""})

\* C23: ExportedData is closed under its cross-references: every
\* organization, credential-type, project or inventory name an exported
\* entity refers to is the name of an entity of the exported list.
C23_ExportClosed ==
    Past("user_associations") =>
        \A rt \in PreviewTypes :
            LET items == dataForTypeIn(data, rt) IN
            \A i \in DOMAIN items : \A ref \in References(items[i]) :
                ref[2] \in NamesOf(dataForTypeIn(data, ref[1]))

createCandidates(d) ==
    UNION { {<<rt, name>> : name \in NamesOf(dataForTypeIn(d, rt))} : rt \in PreviewTypes }

\* The names of the source's managed credential types.
ManagedNames ==
    {source.credential_types[n].name :
        n \in {m \in DOMAIN source.credential_types : source.credential_types[m].managed}}

\* C25: no exported list holds a resource with a default name of its type,
\* the exported credential types hold no managed one, and so no create of
\* a run is for a default-named item or a managed credential type.
C25_NoDefaultsExported ==
    data # << >> =>
        /\ \A rt \in PreviewTypes :
              NamesOf(dataForTypeIn(data, rt)) \cap skipNames(rt) = {}
        /\ \A n \in DOMAIN data.CredentialTypes : ~data.CredentialTypes[n].managed
        /\ \A c \in createCandidates(data) :
              /\ c[2] \notin skipNames(c[1])
              /\ c[1] = "credential_types" => c[2] \notin ManagedNames

\* An export of a source that holds the stock items has returned its data.
C25_Witness ==
    /\ xpc = "returned" /\ xerr = ""
    /\ "Default" \in NamesOf(source.organizations)
    /\ "Demo Job Template" \in NamesOf(source.job_templates)
    /\ ManagedNames # {}
    /\ NamesOf(data.Organizations) = {"Acme"}
    /\ NamesOf(data.CredentialTypes) = {"Token"}

\* C26: a source resource with an empty natural key is not added to
\* ExportedData, so no item with an empty name is previewed.
C26_NoEmptyKeyExported ==
    /\ data # << >> =>
          \A rt \in PreviewTypes : "" \notin NamesOf(dataForTypeIn(data, rt))
    /\ Past("preflight") =>
          \A rt \in PreviewTypes : \A n \in DOMAIN xlist[rt] : xlist[rt][n].name # ""

\* importAll is in the wait for the sync of a project.
Waiting == wpc = "work" /\ ipc.ph = "project_wait" /\ ipc.at = "poll"

\* The log lines a wait ends with.
WaitLines ==
    {"Project sync complete", "WARNING: project sync status", "WARNING: GET failed",
     "WARNING: timeout waiting for project sync", "WARNING: context canceled"}

RECURSIVE ResultsUpTo(_)
ResultsUpTo(n) == IF n = 0 THEN << >> ELSE ResultsUpTo(n - 1) \o pages[n].results

\* C29: GetAll follows the next links to the page whose next is null, a
\* relative link taken against the base URL, and returns the results of all
\* pages, in page order; when a page's request fails it returns an error
\* and no result.
C29_GetAllConcatenatesPages ==
    /\ gres = "ok" =>
          /\ fetched = [k \in 1..Len(pages) |-> k]
          /\ all = ResultsUpTo(Len(pages))
    /\ gres = "error" => all = << >>
    /\ gres # "" => (gres = "error" <=> \E k \in DOMAIN pages : ~pages[k].ok)

\* GetAll has returned the results of three pages, the second reached by a
\* relative link and the third by an absolute one.
C29_Witness ==
    /\ gres = "ok"
    /\ Len(pages) = 3
    /\ pages[1].next.url = PagePath(2)
    /\ pages[2].next.url = baseURL \o PagePath(3)
    /\ Len(all) >= 2

\* A version string whose parts are all numbers.
Numeric(v) == \A i \in DOMAIN v : Atoi(v[i]) # -1

\* Part i of a version, 0 for a missing one.
PartOr0(v, i) == IF i \in DOMAIN v THEN Atoi(v[i]) ELSE 0

\* The order of two numeric versions by their first differing part.
PartwiseOrder(a, b) ==
    LET diff == {i \in 1..Max({Len(a), Len(b)}) : PartOr0(a, i) # PartOr0(b, i)} IN
    IF diff = {} THEN 0
    ELSE IF PartOr0(a, Min(diff)) < PartOr0(b, Min(diff)) THEN -1 ELSE 1

\* C30: CompareVersions compares the dot-separated parts as numbers, in
\* order, a missing part counting as zero, and VersionAtLeast(v, min) is
\* true exactly when v or min is empty or CompareVersions(v, min) is not
\* negative.
C30_VersionOrder ==
    vres # << >> =>
        /\ (Numeric(va) /\ Numeric(vb)) => vres.cmp = PartwiseOrder(va, vb)
        /\ (va = << "1" >> /\ vb = << "1", "0", "0" >>) => vres.cmp = 0
        /\ (va = << "23", "4", "0" >> /\ vb = << "4", "23", "1" >>) => vres.cmp = 1
        /\ vres.atLeast <=> (va = EmptyVersion \/ vb = EmptyVersion \/ vres.cmp >= 0)

\* "1" has been compared with "1.0.0".
C30_Witness ==
    /\ vres # << >>
    /\ va = << "1" >> /\ vb = << "1", "0", "0" >>
    /\ vres.cmp = 0 /\ vres.atLeast

\* ---------------------------------------------------------------------- C31

\* old occurs in s at position k.
OccursAt(s, old, k) ==
    /\ k \in 1..(Len(s) - Len(old) + 1)
    /\ SubSeq(s, k, k + Len(old) - 1) = old

\* t is s with the leftmost occurrence of old replaced by new, s itself when
\* old does not occur.
IsRewriteOf(t, s, old, new) ==
    IF \A k \in 1..Len(s) : ~OccursAt(s, old, k) THEN t = s
    ELSE \E k \in 1..Len(s) :
            /\ OccursAt(s, old, k)
            /\ \A m \in 1..(k - 1) : ~OccursAt(s, old, m)
            /\ t = SubSeq(s, 1, k - 1) \o new \o SubSeq(s, k + Len(old), Len(s))

\* The skip set of an entry, the empty set for a nil map.
SkipOf(h, e) == IF e.Skip = 0 THEN {} ELSE h[e.Skip]

\* What rewritePaths returned: one entry per entry of the registry, its path
\* the rewrite of the entry's path.
RewrittenRight ==
    rewritten # << >> =>
        /\ Len(rewritten) = Len(registry)
        /\ \A i \in DOMAIN registry :
              IsRewriteOf(rewritten[i].APIPath, registry[i].APIPath, rargs[1], rargs[2])

\* No step changes the registry handed in: neither its paths nor its skip sets.
RegistryKept ==
    /\ registry' = registry
    /\ \A i \in DOMAIN registry :
          /\ (registry[i].Skip = 0) = (registry'[i].Skip = 0)
          /\ SkipOf(heap', registry'[i]) = SkipOf(heap, registry[i])

\* C31: rewritePaths returns, for every entry of the registry, an entry whose
\* path is the entry's path with the old prefix replaced by the new one (the
\* same path when the old prefix does not occur), and neither the call nor a
\* later change of a returned entry's skip set changes the paths or the skip
\* sets of the registry handed in.
C31_RewritePathsCopies == [](RewrittenRight) /\ [][RegistryKept]_vars

\* A call replaced a path, and the caller then changed a returned skip set.
C31_Witness ==
    /\ rewritten # << >>
    /\ \E i \in DOMAIN registry :
          /\ rewritten[i].APIPath # registry[i].APIPath
          /\ registry[i].Skip # 0
          /\ SkipOf(heap, rewritten[i]) # SkipOf(heap, registry[i])

\* ---------------------------------------------------------------------- C32

ListReturned == lpc # << >> /\ lpc.at = "returned"

\* C32: JobStore.List returns every job of the store exactly once, in the
\* order of their start times, the most recent first.
C32_ListNewestFirst ==
    ListReturned =>
        /\ Len(result) = Cardinality(DOMAIN jobs)
        /\ \A id \in DOMAIN jobs : Cardinality({a \in DOMAIN result : result[a] = id}) = 1
        /\ \A a, b \in DOMAIN result : a < b => jobs[result[a]] >= jobs[result[b]]

\* List returned three jobs that did not all start at the same time, a job
\* created later before one created earlier.
C32_Witness ==
    /\ ListReturned
    /\ Len(result) = MaxJobs
    /\ jobs[result[1]] > jobs[result[Len(result)]]
    /\ result[1] > result[Len(result)]

\* ---------------------------------------------------------------------- C33

\* C33: Delete is idempotent: it reports success when the server answers 204
\* and also when it answers 404 for an object that is already gone, so that a
\* second Delete of a path succeeds like the first.
C33_DeleteIdempotent ==
    /\ \A n \in DOMAIN deletes :
          deletes[n].status \in {204, 404} => deletes[n].err = ""
    /\ \A m, n \in DOMAIN deletes :
          (/\ m < n
           /\ deletes[m].path = deletes[n].path
           /\ deletes[m].status = 204
           /\ deletes[n].status # 0
           /\ deletes[n].status \notin RefusalCodes) => deletes[n].err = ""

\* An object was deleted with 204, and the next Delete of it was answered 404.
C33_Witness ==
    \E n \in DOMAIN deletes :
        /\ n + 1 \in DOMAIN deletes
        /\ deletes[n].path = deletes[n + 1].path
        /\ deletes[n].status = 204 /\ deletes[n].err = ""
        /\ deletes[n + 1].status = 404 /\ deletes[n + 1].err = ""

\* ---------------------------------------------------------------------- C34

\* The creators whose Create has returned.
Created == {n \in Creators : gpc[<<"create", n>>].at = "done"}

\* After any number of the concurrent Creates there is one connection per
\* Create that returned, under an ID of its own, and it has the statuses
\* "unknown" until a SetHealth for it has run; a Get that returned found the
\* connection.
ConnsRight ==
    /\ Cardinality(DOMAIN conns) = Cardinality(Created)
    /\ \A n \in Created : IDOf(n) \in DOMAIN conns
    /\ \A m, n \in Created : m # n => IDOf(m) # IDOf(n)
    /\ \A n \in Created :
          gpc[<<"health", n>>].at # "done" =>
              /\ conns[IDOf(n)].PingStatus = "unknown"
              /\ conns[IDOf(n)].AuthStatus = "unknown"
    /\ \A n \in DOMAIN gets : gets[n] = IDOf(n) /\ gets[n] # 0

\* No step takes an entry out of the store.
ConnsKept == DOMAIN conns \subseteq DOMAIN conns'

\* C34: N concurrent Create calls leave exactly N connections in the store,
\* with pairwise distinct IDs and the ping and auth status "unknown", and
\* concurrent Get and SetHealth calls on them never lose an entry.
C34_ConcurrentStore == [](ConnsRight) /\ [][ConnsKept]_vars

\* Every goroutine is done: all connections are stored, each was read and had
\* its health set.
C34_Witness ==
    /\ \A g \in Goroutines : gpc[g].at = "done"
    /\ Cardinality(DOMAIN conns) = NumCreators
    /\ \E id \in DOMAIN conns : conns[id].PingStatus = "ok"

\* ---------------------------------------------------------------------- C35

\* The create POSTs of the current run for this project, by their outcome.
ProjectPosts(name, ok) ==
    {n \in DOMAIN RunPosts :
        RunPosts[n].path = "projects" /\ RunPosts[n].name = name /\ RunPosts[n].ok = ok}

\* C35: the importer waits for a project's sync only on an AAP destination and
\* only for a project this run created: never for one that was adopted,
\* excluded or whose create failed, and for none on an AWX destination.
C35_WaitsOnlyForCreated ==
    Waiting =>
        LET pw == waitList[ipc.i] IN
        /\ scn.dstType = "aap"
        /\ ProjectPosts(pw.name, TRUE) # {}
        /\ ProjectPosts(pw.name, FALSE) = {}
        /\ \E n \in DOMAIN output :
              output[n] = Line("CREATED", pw.name, pw.id)
        /\ \E r \in dest : r.type = "projects" /\ r.id = pw.id /\ r.name = pw.name
        /\ actionFor("projects", pw.name).action = "create"
        /\ ~isExcluded("projects", pw.name)

\* The importer has polled the project it created once and polls it again,
\* in a run that excluded another project.
C35_Witness ==
    /\ Waiting /\ ipc.j >= 1
    /\ waitList[ipc.i].name = "PBooks"
    /\ isExcluded("projects", "Site")
    /\ LoggedAbout("EXCLUDED", "Site")

\* ---------------------------------------------------------------------- C39

\* A first run has gone through every phase with no POST refused.
CleanFirstRun ==
    /\ run = 1 /\ wpc = "work" /\ ipc.ph = "returned" /\ werr = ""
    /\ FailedPosts = << >>

\* The destination's objects that correspond to a source item of an
\* organization: those of its name in the destination's organization of that name.
DestOf(type, item) ==
    {r \in dest : /\ r.type = type /\ r.name = item.name
                  /\ r.parent # 0 /\ r.parent = Lookup(ids.orgs, item.org)}

\* The members the run has put under an object of the destination.
MembersOf(path, id) ==
    {RunPosts[n].id : n \in {m \in DOMAIN RunPosts :
                                RunPosts[m].path = path /\ RunPosts[m].parent = id}}

\* The destination's users that correspond to the members of a source team.
UsersOf(team) ==
    LET us == SeqAt(Data.TeamUsers, team.id) IN {Lookup(ids.users, us[n]) : n \in DOMAIN us}

\* C39: when two exported items of a type share their natural key, each is
\* migrated as a destination object of its own, and the members and children
\* of a source item are attached to the object that corresponds to it: after
\* a first run without exclusion of them and without a refused POST, every
\* team has its object with exactly its users, and every inventory its
\* object with exactly its hosts.
C39_TwinsMigratedApart ==
    CleanFirstRun =>
        /\ \A k \in DOMAIN Data.Teams :
              LET team == Data.Teams[k] IN
              /\ Cardinality(DestOf("teams", team)) = 1
              /\ \A r \in DestOf("teams", team) :
                    MembersOf("teams/users", r.id) = UsersOf(team)
        /\ \A k \in DOMAIN Data.Inventories :
              LET inv == Data.Inventories[k] IN
              /\ Cardinality(DestOf("inventories", inv)) = 1
              /\ \A r \in DestOf("inventories", inv) :
                    {h.name : h \in {x \in dest : x.type = "hosts" /\ x.parent = r.id}}
                        = NamesOf(SeqAt(Data.Hosts, inv.id))

\* ---------------------------------------------------------------------- C36

\* The key of idMap.hosts for a host of the source inventory i.
HostKey(i, host) == <<LookupStr(srcInvNames, i), host.name>>

\* The host loop of this run has stored an entry for the host.
HostMapped(i, host) ==
    /\ host.id \in DOMAIN srcHostNames
    /\ HostKey(i, host) \in DOMAIN ids.hosts

\* The source edges: an inventory, a group of it, a host of the group.
SourceEdges ==
    {e \in [inv : DOMAIN Data.Groups, group : 1..2, host : 1..2] :
        /\ e.inv \in DOMAIN Data.Hosts
        /\ e.group \in DOMAIN Data.Groups[e.inv]
        /\ e.host \in DOMAIN Data.Hosts[e.inv]
        /\ \E n \in DOMAIN SeqAt(Data.GroupHosts, Data.Groups[e.inv][e.group].id) :
              Data.GroupHosts[Data.Groups[e.inv][e.group].id][n] = Data.Hosts[e.inv][e.host].id}

\* C36: hosts of the same name in different inventories get distinct entries
\* of idMap.hosts, and every group-host association POST links a group of the
\* destination to a host of the same destination inventory, one that idMap
\* holds and that has the name of the host of a source edge of that group.
C36_HostsKeptApart ==
    /\ \A i1, i2 \in DOMAIN Data.Hosts :
          \A a \in DOMAIN Data.Hosts[i1], b \in DOMAIN Data.Hosts[i2] :
              LET h1 == Data.Hosts[i1][a]
                  h2 == Data.Hosts[i2][b]
              IN (/\ i1 # i2 /\ h1.name = h2.name
                  /\ HostMapped(i1, h1) /\ HostMapped(i2, h2))
                 => /\ HostKey(i1, h1) # HostKey(i2, h2)
                    /\ ids.hosts[HostKey(i1, h1)] # ids.hosts[HostKey(i2, h2)]
    /\ \A n \in DOMAIN RunPosts :
          LET p == RunPosts[n] IN
          p.path = "groups/hosts" =>
              /\ \E k \in DOMAIN ids.hosts : ids.hosts[k] = p.id
              /\ \E g, h \in dest :
                    /\ g.type = "groups" /\ g.id = p.parent
                    /\ h.type = "hosts" /\ h.id = p.id
                    /\ h.parent = g.parent
                    /\ \E e \in SourceEdges :
                          /\ Data.Groups[e.inv][e.group].name = g.name
                          /\ Data.Hosts[e.inv][e.host].name = h.name

\* ---------------------------------------------------------------------- C37

CancelLine == Line("CANCELLED: migration stopped by user", "", 0)

\* A cancel request that finds the job not running gets 409 and changes nothing.
RejectedWhenNotRunning ==
    (cancelsLeft' < cancelsLeft /\ status # "running")
        => (cancelResp' = 409 /\ UNCHANGED <<status, cancelled, output>>)

\* No step sets the flag of an ended job or appends the cancel line to it.
EndedJobLeftAlone ==
    status \in {"completed", "failed"}
        => (cancelled' = cancelled /\ appendCalls' # Append(appendCalls, CancelLine))

\* C37: a cancel request that finds the job not running is answered 409 and
\* changes nothing of the job, and once the job is completed or failed no
\* step sets its cancellation flag or appends the line "CANCELLED: migration
\* stopped by user", also when the job ended while the request was handled.
C37_NoCancelOfEndedJob ==
    [][RejectedWhenNotRunning]_vars /\ [][EndedJobLeftAlone]_vars

\* ---------------------------------------------------------------------- C38

\* C38: a preview job that is completed and that no run has consumed has its
\* entry in the Preview Store, and GetMigrationPreview answers "preview data
\* not found" only for a preview job that a run has consumed.
C38_CompletedPreviewHasEntry ==
    /\ \A p \in PreviewIDs :
          (pjob[p] = "completed" /\ RunsOf(p) = {}) => p \in previews
    /\ pget.body = "preview data not found" => RunsOf(pget.job) # {}

\* A client got the preview of a completed job that no run has consumed.
C38_Witness ==
    /\ pget.code = 200 /\ pget.body = "preview"
    /\ pjob[pget.job] = "completed"
    /\ RunsOf(pget.job) = {}

\* ---------------------------------------------------------------------- C40

\* The map of idMap that holds the items of a preview type.
idMapOf(typeName) ==
    CASE typeName = "organizations" -> ids.orgs
      [] typeName = "credential_types" -> ids.credTypes
      [] typeName = "users" -> ids.users
      [] typeName = "teams" -> ids.teams
      [] typeName = "credentials" -> ids.creds
      [] typeName = "projects" -> ids.projects
      [] typeName = "inventories" -> ids.invs
      [] typeName = "job_templates" -> ids.jts
      [] typeName = "workflow_job_templates" -> ids.wfjts

MappedTypes == {"organizations", "credential_types", "users", "teams", "credentials",
                "projects", "inventories", "job_templates", "workflow_job_templates"}

\* Preflight found the item on the destination and the user did not exclude it.
AdoptedItem(typeName, item) ==
    /\ actionFor(typeName, item.name).action # "create"
    /\ ~isExcluded(typeName, item.name)

\* A create POST of this run for this item (for an item of an organization:
\* with that organization in its payload) was answered 2xx.
CreatedItem(typeName, item) ==
    \E n \in DOMAIN RunPosts :
        LET p == RunPosts[n] IN
        /\ p.path = typeName /\ p.name = item.name /\ p.ok
        /\ ("org" \in DOMAIN item /\ item.org # "")
              => OrgIn(p.refs) = Lookup(ids.orgs, item.org)

\* A create POST of this run put an object of this name under this parent.
CreatedUnder(path, id) ==
    \E n \in DOMAIN RunPosts :
        RunPosts[n].path = path /\ RunPosts[n].ok /\
        \E r \in dest : r.id = id /\ r.name = RunPosts[n].name /\ r.parent = RunPosts[n].parent

\* Every value of idMap is the ID of an object of the destination.
ValuesAreDestIDs ==
    \A m \in DOMAIN ids : \A k \in DOMAIN ids[m] : ids[m][k] > 0 /\ IsDestID(ids[m][k])

\* C40: throughout an import, every value of idMap is a positive destination
\* ID, an exported item has an entry only if preflight adopted it or its own
\* create POST succeeded in this run (so an excluded, skipped or failed item
\* has none), and a host or group has one only if this run created it.
C40_EntriesOnlyAdoptedOrCreated ==
    wpc = "work" =>
        /\ ValuesAreDestIDs
        /\ \A t \in MappedTypes : \A k \in DOMAIN itemsOf(t) :
              LET item == itemsOf(t)[k] IN
              item.name \in DOMAIN idMapOf(t)
                  => AdoptedItem(t, item) \/ CreatedItem(t, item)
        /\ \A k \in DOMAIN ids.hosts : CreatedUnder("inventories/hosts", ids.hosts[k])
        /\ \A k \in DOMAIN ids.groups : CreatedUnder("inventories/groups", ids.groups[k])

====
